---- MODULE Spec2Model ----
(***************************************************************************)
(* A model of the mailroom core: the campaign event fire store and the     *)
(* campaign scheduler (package models), the broadcast fan-out and batch    *)
(* worker (package broadcasts), the language change hook (package hooks),  *)
(* the flow lookup (package models) and the web server (package web).      *)
(*                                                                         *)
(* The subsystems share no state, so each has a specification of its own   *)
(* over the one set of variables: SpecFires and SpecResolve (the store,    *)
(* and workers that load and resolve fires), SpecSchedule and SpecContact  *)
(* (the scheduler for a start time and for a contact), SpecFanout (one     *)
(* fan-out, every environment), SpecSend (a fan-out and the sending of its *)
(* batches), SpecWorker (the same with redelivered and misrouted tasks),   *)
(* SpecPool (the same with concurrent workers), SpecHooks and              *)
(* SpecSharedContact (a commit of sessions of distinct contacts, or of one *)
(* contact), SpecFlows, SpecWeb (a request to an authorized route) and     *)
(* SpecServer (start and stop of the server). Spec is their union.         *)
(***************************************************************************)
EXTENDS Integers, Sequences, FiniteSets, TLC

VARIABLES
    fires,        \* the rows of table campaigns_eventfire
    nextFireID,   \* the next value of the table's id sequence
    lastCall,     \* the last event fire store operation that was called
    sched,        \* one ScheduleForTime computation: its arguments and its result
    handlerQueue, \* the tasks in the handler queue, oldest first
    batchQueue,   \* the tasks in the batch queue, oldest first
    fanout,       \* the send_broadcast task handled: its arguments and its results
    sent,         \* the ids of the broadcasts marked sent
    courier,      \* the messages handed to courier, one entry per hand-off
    sendCall,     \* the last send_broadcast_batch task handled, and its results
    preCommits,   \* per session and commit hook, the events accumulated for the commit
    contactLanguage, \* column language of table contacts_contact, by contact id
    applied,      \* the invocations of commit hooks, in order
    committed,    \* whether the sessions were committed: "no", "done" or "aborted"
    flowLookup,   \* one lookup of a flow: the flows table, its arguments and its results
    loaded,       \* per fire worker, the event fires it holds from LoadEventFires
    inProgress,   \* per pool worker, the task it has pulled and not finished
    request,      \* one HTTP request to a JSON route, and its response
    server        \* the web server: Start, its goroutine, the wait group, Wait

fireVars == <<fires, nextFireID, lastCall>>

bcastVars == <<handlerQueue, batchQueue, fanout, sent, courier, sendCall>>

hookVars == <<preCommits, contactLanguage, applied, committed>>

webVars == <<request, server>>

vars == <<fires, nextFireID, lastCall, sched, handlerQueue, batchQueue, fanout, sent,
          courier, sendCall, preCommits, contactLanguage, applied, committed, flowLookup,
          loaded, inProgress, request, server>>

\* the state of each subsystem before anything has been called
IdleFires == fires = {} /\ nextFireID = 1 /\ lastCall = [op |-> "none"]

IdleSchedule == sched = [state |-> "idle"]

IdleBroadcasts ==
    /\ handlerQueue = <<>>
    /\ batchQueue = <<>>
    /\ fanout = [state |-> "none"]
    /\ sent = {}
    /\ courier = <<>>
    /\ sendCall = [state |-> "none"]

IdleHooks ==
    /\ preCommits = <<>>
    /\ contactLanguage = <<>>
    /\ applied = <<>>
    /\ committed = "no"

IdleFlows == flowLookup = [state |-> "idle"]

IdleLoads == loaded = <<>>

IdlePool == inProgress = <<>>

IdleWeb == request = [state |-> "idle"] /\ server = [state |-> "idle"]

(***************************************************************************)
(* Event fire store (src/unnamed/part_003, lines 319-507)                  *)
(***************************************************************************)

\* the largest fire id the id sequence hands out in the model
MaxFireID == 2

\* the contacts and campaign events rows are written for
ContactIDs == 1..2
CampaignEventIDs == 1..2

\* the values of MarkEventsFired's fired argument
FiredTimes == {"t1"}

\* a null fired column
NULL == "null"

FireResultFired == "F"
FireResultSkipped == "S"

FireIDs == 1..MaxFireID

\* a (contact, event) pair: what FireDelete holds, and FireAdd without scheduled
Pairs == [contact_id : ContactIDs, event_id : CampaignEventIDs]

\* the rows of fs that are unfired and belong to pair p
Unfired(fs, p) ==
    {f \in fs : f.contact_id = p.contact_id /\ f.event_id = p.event_id /\ f.fired = NULL}

\* how many entries of the list equal p
CountIn(list, p) == Cardinality({i \in DOMAIN list : list[i] = p})

\* INSERT INTO campaigns_eventfire (contact_id, event_id, scheduled) VALUES ...:
\* one new row per entry, ids from the sequence, fired null
insertEventFiresSQL(fs, next, adds) ==
    fs \cup {[fire_id |-> next + i - 1,
              contact_id |-> adds[i].contact_id,
              event_id |-> adds[i].event_id,
              fired |-> NULL,
              fired_result |-> NULL] : i \in DOMAIN adds}

\* a delete that removes nothing
removeUnfiredFiresSQL_KeepsAll(fs, removes) == fs

\* DELETE ... WHERE id IN (SELECT c.id ... WHERE c.contact_id = f.contact_id AND
\* c.event_id = f.event_id AND c.fired IS NULL), for every entry of removes
removeUnfiredFiresSQL(fs, removes) ==
    {f \in fs : ~ \E i \in DOMAIN removes :
                    /\ f.contact_id = removes[i].contact_id
                    /\ f.event_id = removes[i].event_id
                    /\ f.fired = NULL}

\* DELETE FROM campaigns_eventfire WHERE contact_id = $1 AND fired IS NULL
deleteUnfiredContactEventsSQL(fs, contactID) ==
    {f \in fs : ~ (f.contact_id = contactID /\ f.fired = NULL)}

\* a delete by id that does not look at the fired column
deleteEventFires_AnyRow(fs, ids) == {f \in fs : f.fire_id \notin ids}

\* DELETE FROM campaigns_eventfire WHERE id = ANY($1) AND fired IS NULL
deleteEventFires(fs, ids) ==
    {f \in fs : ~ (f.fire_id \in ids /\ f.fired = NULL)}

\* UPDATE campaigns_eventfire f SET fired = r.fired, fired_result = r.fired_result
\* ... WHERE f.id = r.fire_id
markEventsFired(fs, ids, fired, result) ==
    {IF f.fire_id \in ids
        THEN [f EXCEPT !.fired = fired, !.fired_result = result]
        ELSE f : f \in fs}

\* the lists of one to n pairs
PairLists(n) == UNION {[1..k -> Pairs] : k \in 1..n}

InitFires ==
    /\ IdleFires /\ IdleSchedule /\ IdleBroadcasts /\ IdleHooks /\ IdleFlows
    /\ IdleLoads /\ IdlePool /\ IdleWeb

\* AddEventFires(ctx, tx, adds): nothing for an empty list, else one bulk insert
AddEventFires ==
    \E adds \in PairLists(2) \cup {<<>>}, ok \in BOOLEAN :
        /\ nextFireID + Len(adds) - 1 <= MaxFireID
        /\ lastCall' = [op |-> "AddEventFires", adds |-> adds, err |-> ~ok /\ adds # <<>>]
        /\ IF adds = <<>> \/ ~ok
              THEN UNCHANGED <<fires, nextFireID>>
              ELSE /\ fires' = insertEventFiresSQL(fires, nextFireID, adds)
                   /\ nextFireID' = nextFireID + Len(adds)

\* DeleteUnfiredEventFires(ctx, tx, removes): nothing for an empty list, else one
\* bulk delete
DeleteUnfiredEventFires ==
    \E removes \in PairLists(1) \cup {<<>>}, ok \in BOOLEAN :
        /\ lastCall' = [op |-> "DeleteUnfiredEventFires", removes |-> removes,
                        err |-> ~ok /\ removes # <<>>]
        /\ fires' = IF removes = <<>> \/ ~ok THEN fires
                    ELSE removeUnfiredFiresSQL(fires, removes)
        /\ UNCHANGED nextFireID

\* DeleteUnfiredContactEvents(ctx, tx, contactID)
DeleteUnfiredContactEvents ==
    \E contactID \in ContactIDs, ok \in BOOLEAN :
        /\ lastCall' = [op |-> "DeleteUnfiredContactEvents", contactID |-> contactID,
                        err |-> ~ok]
        /\ fires' = IF ok THEN deleteUnfiredContactEventsSQL(fires, contactID) ELSE fires
        /\ UNCHANGED nextFireID

\* DeleteEventFires(ctx, db, fires): deletes by the ids of the passed fires
DeleteEventFires ==
    \E ids \in SUBSET FireIDs, ok \in BOOLEAN :
        /\ lastCall' = [op |-> "DeleteEventFires", ids |-> ids, err |-> ~ok]
        /\ fires' = IF ok THEN deleteEventFires(fires, ids) ELSE fires
        /\ UNCHANGED nextFireID

\* MarkEventsFired(ctx, tx, fires, fired, result), for the fires and the times the
\* caller may pass
MarkEventsFiredOf(idSets, times) ==
    \E ids \in idSets, fired \in times,
       result \in {FireResultFired, FireResultSkipped}, ok \in BOOLEAN :
        /\ lastCall' = [op |-> "MarkEventsFired", ids |-> ids, fired |-> fired,
                        result |-> result, err |-> ~ok]
        /\ fires' = IF ok THEN markEventsFired(fires, ids, fired, result) ELSE fires
        /\ UNCHANGED nextFireID

\* MarkEventsFired called with any list of fires
MarkEventsFired == MarkEventsFiredOf(SUBSET FireIDs, FiredTimes)

NextFires ==
    \/ AddEventFires /\ UNCHANGED <<sched, bcastVars, hookVars, flowLookup, loaded, inProgress, webVars>>
    \/ DeleteUnfiredEventFires /\ UNCHANGED <<sched, bcastVars, hookVars, flowLookup, loaded, inProgress, webVars>>
    \/ DeleteUnfiredContactEvents /\ UNCHANGED <<sched, bcastVars, hookVars, flowLookup, loaded, inProgress, webVars>>
    \/ DeleteEventFires /\ UNCHANGED <<sched, bcastVars, hookVars, flowLookup, loaded, inProgress, webVars>>
    \/ MarkEventsFired /\ UNCHANGED <<sched, bcastVars, hookVars, flowLookup, loaded, inProgress, webVars>>

SpecFires == InitFires /\ [][NextFires]_vars


(***************************************************************************)
(* Campaign scheduler (src/unnamed/part_003, lines 180-216)                *)
(*                                                                         *)
(* A time.Time is an instant: whole seconds since the epoch (s) and        *)
(* nanoseconds within the second (ns). A *time.Location is a zone with at  *)
(* most one transition: offset `before` applies to instants before second  *)
(* `at`, offset `after` from it on (a fixed zone has before = after).      *)
(* Calendar dates are day numbers since the epoch, so that adding days to  *)
(* a date is adding to the day number.                                     *)
(***************************************************************************)

\* the largest absolute value of a campaign event's offset in the model
MaxOffset == 2

\* time.Minute, time.Hour and a calendar day, in seconds
Minute == 60
Hour == 3600
Day == 86400

NilDeliveryHour == -1

OffsetMinute == "M"
OffsetHour == "H"
OffsetDay == "D"
OffsetWeek == "W"

\* the zone offset, in seconds east of UTC, in effect at second unix
lookup(loc, unix) == IF unix < loc.at THEN loc.before ELSE loc.after

\* the wall clock reading of instant t in loc, in seconds
abs(t, loc) == t.s + lookup(loc, t.s)

\* t.Year(), t.Month(), t.Day() as a day number
DayOf(t, loc) == abs(t, loc) \div Day

\* t.Hour(), t.Minute(), t.Second(), t.Nanosecond()
HourOf(t, loc) == (abs(t, loc) % Day) \div Hour
MinuteOf(t, loc) == (abs(t, loc) % Hour) \div Minute
SecondOf(t, loc) == abs(t, loc) % Minute
NanosecondOf(t) == t.ns

\* t.Add(d) for a duration of d whole seconds
Add(t, d) == [s |-> t.s + d, ns |-> t.ns]

\* t.Truncate(time.Minute): rounds the absolute time down to a multiple of a minute
TruncateMinute(t) == [s |-> t.s - (t.s % Minute), ns |-> 0]

\* t.Before(u)
Before(t, u) == t.s < u.s \/ (t.s = u.s /\ t.ns < u.ns)

\* time.Date(year, month, day, hour, min, sec, nsec, loc), as Go 1.12 (the build's
\* toolchain) computes it: the wall clock reading is looked up as if it were UTC, and
\* the offset found is replaced by the offset on the other side of the transition
\* when the instant it gives lies outside the period that offset applies to. A
\* reading that a transition of loc repeats gets one of its two instants; a reading
\* that a transition skips gets an instant that is "correct in one of the two zones
\* involved in the transition", an hour earlier or later on a wall clock.
Date(day, hour, min, sec, nsec, loc) ==
    LET unix == day * Day + hour * Hour + min * Minute + sec
        offset == lookup(loc, unix)
        utc == unix - offset
        adjusted == IF offset = 0 THEN offset
                    ELSE IF unix >= loc.at /\ utc < loc.at THEN lookup(loc, loc.at - 1)
                    ELSE IF unix < loc.at /\ utc >= loc.at THEN lookup(loc, loc.at)
                    ELSE offset
    IN  [s |-> unix - adjusted, ns |-> nsec]

\* t.AddDate(0, 0, days): Date(year, month, day+days, hour, min, sec, nsec, loc)
AddDate(t, days, loc) ==
    Date(DayOf(t, loc) + days, HourOf(t, loc), MinuteOf(t, loc), SecondOf(t, loc),
         NanosecondOf(t), loc)

\* rounding that advances a start already on a whole minute too
roundToNextMinute_Always(start, tz) == TruncateMinute(Add(start, 60))

\* lines 185-189: round to next minute, floored at 0 s/ns if we aren't already at 0
roundToNextMinute(start, tz) ==
    IF SecondOf(start, tz) > 0 \/ NanosecondOf(start) > 0
       THEN TruncateMinute(Add(start, 60))
       ELSE start

\* as applyOffset, with a unit the switch does not know taken as no offset
applyOffset_UnknownIsZero(e, scheduled, tz) ==
    CASE e.unit = OffsetMinute ->
            [err |-> FALSE, scheduled |-> Add(scheduled, Minute * e.offset)]
      [] e.unit = OffsetHour ->
            [err |-> FALSE, scheduled |-> Add(scheduled, Hour * e.offset)]
      [] e.unit = OffsetDay ->
            [err |-> FALSE, scheduled |-> AddDate(scheduled, e.offset, tz)]
      [] e.unit = OffsetWeek ->
            [err |-> FALSE, scheduled |-> AddDate(scheduled, e.offset * 7, tz)]
      [] OTHER ->
            [err |-> FALSE, scheduled |-> scheduled]

\* lines 191-203: scheduled with the offset applied; the default case of the switch
\* is the error "unknown offset unit"
applyOffset(e, scheduled, tz) ==
    CASE e.unit = OffsetMinute ->
            [err |-> FALSE, scheduled |-> Add(scheduled, Minute * e.offset)]
      [] e.unit = OffsetHour ->
            [err |-> FALSE, scheduled |-> Add(scheduled, Hour * e.offset)]
      [] e.unit = OffsetDay ->
            [err |-> FALSE, scheduled |-> AddDate(scheduled, e.offset, tz)]
      [] e.unit = OffsetWeek ->
            [err |-> FALSE, scheduled |-> AddDate(scheduled, e.offset * 7, tz)]
      [] OTHER ->
            [err |-> TRUE, scheduled |-> scheduled]

\* a clamp that keeps the minutes of scheduled
applyDeliveryHour_KeepsMinute(e, scheduled, tz) ==
    IF e.delivery_hour # NilDeliveryHour
       THEN Date(DayOf(scheduled, tz), e.delivery_hour, MinuteOf(scheduled, tz), 0, 0, tz)
       ELSE scheduled

\* lines 205-208: now set our delivery hour if set
applyDeliveryHour(e, scheduled, tz) ==
    IF e.delivery_hour # NilDeliveryHour
       THEN Date(DayOf(scheduled, tz), e.delivery_hour, 0, 0, 0, tz)
       ELSE scheduled

\* a past check that also drops an instant equal to now
isPast_OrNow(scheduled, now) == ~Before(now, scheduled)

\* lines 210-213: if this is in the past, this is a no op
isPast(scheduled, now) == Before(scheduled, now)

\* the zero time.Time, in the place of a nil *time.Time
NoTime == [s |-> 0, ns |-> 0]

\* ScheduleForTime(tz, now, start): what it returns. fire tells whether the returned
\* *time.Time is non-nil and at is its value; offsetted and scheduled are the values
\* of local variable scheduled after the offset and after the delivery hour.
ScheduleForTime(e, tz, now, start) ==
    LET rounded == roundToNextMinute(start, tz)
        off == applyOffset(e, rounded, tz)
        sd == applyDeliveryHour(e, off.scheduled, tz)
    IN  IF off.err
           THEN [err |-> TRUE, fire |-> FALSE, at |-> NoTime,
                 offsetted |-> NoTime, scheduled |-> NoTime]
           ELSE [err |-> FALSE,
                 fire |-> ~isPast(sd, now),
                 at |-> IF isPast(sd, now) THEN NoTime ELSE sd,
                 offsetted |-> off.scheduled,
                 scheduled |-> sd]

(***************************************************************************)
(* The arguments ScheduleForTime is called with in the model               *)
(***************************************************************************)

\* the instant at wall clock reading day, h:m:s UTC, plus ns nanoseconds
At(day, h, m, sec, ns) == [s |-> day * Day + h * Hour + m * Minute + sec, ns |-> ns]

\* the day the starts fall on, and the day after it, on which the zones with a
\* transition have it
StartDay == 30
TransitionDay == StartDay + 1

\* UTC; a fixed zone east of UTC with a half hour (UTC+05:30); a zone west of UTC
\* that skips 02:00-03:00 (UTC-5 to UTC-4); a zone east of UTC that skips
\* 02:00-03:00 (UTC+1 to UTC+2); a zone that repeats 02:00-03:00 (UTC+2 to UTC+1);
\* a zone that skips 00:00-01:00 (UTC-3 to UTC-2)
Locations ==
    {[before |-> 0, after |-> 0, at |-> 0],
     [before |-> 19800, after |-> 19800, at |-> 0],
     [before |-> -18000, after |-> -14400, at |-> TransitionDay * Day + 7 * Hour],
     [before |-> 3600, after |-> 7200, at |-> TransitionDay * Day + 1 * Hour],
     [before |-> 7200, after |-> 3600, at |-> TransitionDay * Day + 1 * Hour],
     [before |-> -10800, after |-> -7200, at |-> TransitionDay * Day + 3 * Hour]}

\* starts on and off a minute boundary, by seconds and by nanoseconds alone
Starts ==
    {At(StartDay, 7, 30, 0, 0), At(StartDay, 7, 30, 0, 1), At(StartDay, 7, 30, 30, 0),
     At(StartDay, 10, 0, 30, 0), At(StartDay, 1, 30, 0, 0), At(StartDay, 23, 59, 30, 5)}

\* instants long before and long after every result, and instants at and next to
\* results of the starts above
Nows ==
    {At(0, 0, 0, 0, 0), At(StartDay, 8, 31, 0, 0), At(StartDay, 8, 31, 0, 1),
     At(StartDay, 8, 30, 59, 999999999), At(TransitionDay, 9, 0, 0, 0),
     At(StartDay + 60, 0, 0, 0, 0)}

Units == {OffsetMinute, OffsetHour, OffsetDay, OffsetWeek, "X"}

DeliveryHours == {NilDeliveryHour} \cup 0..23

CampaignEvents ==
    [unit : Units, offset : (-MaxOffset)..MaxOffset, delivery_hour : DeliveryHours]

InitSchedule ==
    /\ IdleFires
    /\ IdleBroadcasts
    /\ IdleHooks
    /\ IdleFlows
    /\ IdleLoads
    /\ IdlePool
    /\ IdleWeb
    /\ \E e \in CampaignEvents, tz \in Locations, now \in Nows, start \in Starts :
          sched = [state |-> "call", e |-> e, tz |-> tz, now |-> now, start |-> start]

\* one call of e.ScheduleForTime(tz, now, start)
CallScheduleForTime ==
    /\ sched.state = "call"
    /\ sched' = [sched EXCEPT !.state = "done"]
                    @@ [ret |-> ScheduleForTime(sched.e, sched.tz, sched.now, sched.start)]
    /\ UNCHANGED <<fireVars, bcastVars, hookVars, flowLookup, loaded, inProgress, webVars>>

NextSchedule == CallScheduleForTime

SpecSchedule == InitSchedule /\ [][NextSchedule]_vars

(***************************************************************************)
(* Campaign scheduler for a contact (src/unnamed/part_003, lines 123-178)  *)
(*                                                                         *)
(* A contact is the groups it belongs to, its field values by key (a key   *)
(* without an entry has no value) and its creation time. A field value is  *)
(* a datetime or a text.                                                   *)
(***************************************************************************)

CreatedOnKey == "created_on"

\* the key of a contact field campaign events are relative to
FieldKeys == {"dob"}

\* the group of the event's campaign, and another group
GroupUUIDs == {"g1", "g2"}

\* the values of a contact field
FieldValues ==
    {[type |-> "text"]} \cup
    {[type |-> "datetime", datetime |-> t] :
        t \in {At(StartDay, 7, 30, 0, 0), At(StartDay, 10, 0, 30, 0)}}

\* value.QueryValue() and the type assertion of lines 160-161
isTime(value) == value.type = "datetime"

Contacts ==
    {[groups |-> groups, fields |-> fields, created_on |-> created] :
        groups \in SUBSET GroupUUIDs,
        fields \in UNION {[keys -> FieldValues] : keys \in SUBSET FieldKeys},
        created \in {At(StartDay, 1, 30, 0, 0), At(StartDay, 23, 59, 30, 5)}}

\* as QualifiesByGroup, for every contact
QualifiesByGroup_Always(e, contact) == TRUE

\* lines 124-126
QualifiesByGroup(e, contact) == e.campaign.group_uuid \in contact.groups

\* as QualifiesByField, without the special case of created_on
QualifiesByField_NoCreatedOn(e, contact) == e.relative_to_key \in DOMAIN contact.fields

\* lines 129-136
QualifiesByField(e, contact) ==
    IF e.relative_to_key = CreatedOnKey THEN TRUE
    ELSE e.relative_to_key \in DOMAIN contact.fields

\* what ScheduleForContact returns when it does not call ScheduleForTime; looked tells
\* whether contact.Fields() was read
NoSchedule(looked) ==
    [err |-> FALSE, fire |-> FALSE, at |-> NoTime, looked |-> looked, called |-> FALSE,
     start |-> NoTime]

\* lines 171-177: ScheduleForTime for the start, its error wrapped
scheduleStart(e, tz, now, start, looked) ==
    LET inner == ScheduleForTime(e, tz, now, start)
    IN  [err |-> inner.err, fire |-> inner.fire, at |-> inner.at, looked |-> looked,
         called |-> TRUE, start |-> start]

\* lines 139-178
ScheduleForContact(e, tz, now, contact) ==
    IF ~QualifiesByGroup(e, contact) THEN NoSchedule(FALSE)
    ELSE IF e.relative_to_key = CreatedOnKey
    THEN scheduleStart(e, tz, now, contact.created_on, FALSE)
    ELSE IF e.relative_to_key \notin DOMAIN contact.fields THEN NoSchedule(TRUE)
    ELSE IF ~isTime(contact.fields[e.relative_to_key]) THEN NoSchedule(TRUE)
    ELSE scheduleStart(e, tz, now, contact.fields[e.relative_to_key].datetime, TRUE)

\* the events, zones and instants ScheduleForContact is called with in the model
ContactDeliveryHours == {NilDeliveryHour, 0, 9, 23}

ContactEvents ==
    {[unit |-> unit, offset |-> offset, delivery_hour |-> hour, relative_to_key |-> key,
      campaign |-> [group_uuid |-> "g1"]] :
        unit \in Units, offset \in (-MaxOffset)..MaxOffset, hour \in ContactDeliveryHours,
        key \in {CreatedOnKey} \cup FieldKeys}

ContactLocations == {tz \in Locations : tz.before \in {0, -18000}}

ContactNows == {At(0, 0, 0, 0, 0), At(StartDay + 60, 0, 0, 0, 0)}

\* a campaign event is scheduled for a contact, or for a start time directly
InitContact ==
    /\ IdleFires
    /\ IdleBroadcasts
    /\ IdleHooks
    /\ IdleFlows
    /\ IdleLoads
    /\ IdlePool
    /\ IdleWeb
    /\ \E e \in ContactEvents, tz \in ContactLocations, now \in ContactNows :
          \/ \E contact \in Contacts :
                sched = [state |-> "callContact", e |-> e, tz |-> tz, now |-> now,
                         contact |-> contact]
          \/ \E start \in Starts :
                sched = [state |-> "call", e |-> e, tz |-> tz, now |-> now,
                         start |-> start]

\* one call of e.ScheduleForContact(tz, now, contact)
CallScheduleForContact ==
    /\ sched.state = "callContact"
    /\ sched' = [sched EXCEPT !.state = "doneContact"]
                    @@ [ret |-> ScheduleForContact(sched.e, sched.tz, sched.now,
                                                   sched.contact)]
    /\ UNCHANGED <<fireVars, bcastVars, hookVars, flowLookup, loaded, inProgress, webVars>>

NextContact == CallScheduleForContact \/ CallScheduleForTime

SpecContact == InitContact /\ [][NextContact]_vars

(***************************************************************************)
(* Broadcast fan-out (src/broadcasts/worker.go, lines 28-135)              *)
(*                                                                         *)
(* A broadcast names explicit contacts (a list, possibly with repeats),    *)
(* groups and URNs. What the calls into package models and package queue   *)
(* return is the environment of a run: the members of the groups, which    *)
(* contact owns each URN, the order Go iterates each map in, and which     *)
(* call fails.                                                             *)
(***************************************************************************)

startBatchSize == 100

\* the largest number of full batches a group fills in the model
MaxFullBatches == 2

\* the sizes of the broadcast's groups: around every multiple of the batch size
GroupSizes == {q * startBatchSize + r : q \in 0..MaxFullBatches, r \in {0, 1, 50}}

\* contact ids; the last one belongs to no list and no group
MaxContactID == (MaxFullBatches + 1) * startBatchSize + 4

\* the id of the first member of the broadcast's groups
GroupLows == {1, 3}

\* bcast.ContactIDs()
ContactIDLists == {<<>>, <<2>>, <<1, 2, 1>>}

\* bcast.URNs(), in the order the model calls ascending
URNList == <<"tel:1", "tel:2">>

URNs == {URNList[i] : i \in DOMAIN URNList}

\* the contacts a URN can resolve to
URNOwners == {1, 3, MaxContactID}

BatchQueue == "batch"
HandlerQueue == "handler"
SendBroadcastType == "send_broadcast"
SendBroadcastBatchType == "send_broadcast_batch"
DefaultPriority == "default"
Nil == "nil"

\* what can go wrong in one run: nothing, the task is of another type, its body does
\* not decode, a call into package models fails, or the n-th queue.AddTask fails
Failures ==
    {"none", "type", "decode", "groups", "org", "session", "urns", "task1", "task2", "task3"}

MapOrders == {"asc", "desc"}

Range(seq) == {seq[i] : i \in DOMAIN seq}

\* the elements of a set of contact ids as a list, in one of Go's map iteration orders
Ordered(set, order) ==
    LET asc == [i \in 1..MaxContactID |-> i]
        desc == [i \in 1..MaxContactID |-> MaxContactID + 1 - i]
    IN  SelectSeq(IF order = "asc" THEN asc ELSE desc, LAMBDA c : c \in set)

\* the keys of the URN map as a list, in one of Go's map iteration orders
OrderedURNs(urnMap, order) ==
    LET desc == [i \in DOMAIN URNList |-> URNList[Len(URNList) + 1 - i]]
    IN  SelectSeq(IF order = "asc" THEN URNList ELSE desc, LAMBDA u : u \in DOMAIN urnMap)

\* models.ContactIDsForGroupIDs as called on line 54: the members, or nothing with an error
ContactIDsForGroupIDs(env) == IF env.failure = "groups" THEN {} ELSE env.members

\* lines 49-57: the explicit contacts, then the group members, into one set
collectContactIDs(bcast, groupContactIDs) == Range(bcast.contact_ids) \cup groupContactIDs

\* as selectQueue, with the handler queue for fewer than two contacts only
selectQueue_FewerThanTwo(contactIDs) ==
    IF Cardinality(contactIDs) < 2 THEN HandlerQueue ELSE BatchQueue

\* lines 78-83: the queue the batches go to
selectQueue(contactIDs) ==
    IF Cardinality(contactIDs) <= 2 THEN HandlerQueue ELSE BatchQueue

\* as removeRepeated, leaving the contact in
removeRepeated_Keeps(contactIDs, id) == contactIDs

\* line 89: delete(contactIDs, id)
removeRepeated(contactIDs, id) == contactIDs \ {id}

\* lines 86-92: the loop over urnMap from its i-th key on; st holds contactIDs,
\* repeatedContacts and urnContacts
RECURSIVE splitURNs(_, _, _, _)
splitURNs(urnMap, keys, i, st) ==
    IF i > Len(keys) THEN st
    ELSE LET u == keys[i]
             id == urnMap[u]
             repeated == id \in st.contactIDs
         IN  splitURNs(urnMap, keys, i + 1,
                 [contactIDs |-> IF repeated THEN removeRepeated(st.contactIDs, id)
                                 ELSE st.contactIDs,
                  repeatedContacts |-> IF repeated THEN (id :> u) @@ st.repeatedContacts
                                       ELSE st.repeatedContacts,
                  urnContacts |-> (id :> u) @@ st.urnContacts])

\* as setIsLast, on every batch
setIsLast_Always(isLast) == TRUE

\* lines 111-112: batch.SetIsLast(true) on the last batch only
setIsLast(isLast) == isLast

\* lines 100-121: queueBatch(isLast); st holds the contacts collected so far and the
\* queue.AddTask calls made so far
queueBatch(bcast, q, split, order, failure, st, isLast) ==
    LET contacts == IF isLast
                    THEN st.contacts \o Ordered(DOMAIN split.repeatedContacts, order)
                    ELSE st.contacts
        batch == [broadcast_id |-> bcast.id,
                  org_id |-> bcast.org_id,
                  contact_ids |-> contacts,
                  is_last |-> setIsLast(isLast),
                  urns |-> IF isLast THEN split.urnContacts ELSE <<>>]
        n == Len(st.calls) + 1
        err == \/ failure = "task1" /\ n = 1
               \/ failure = "task2" /\ n = 2
               \/ failure = "task3" /\ n = 3
    IN  [contacts |-> <<>>,
         calls |-> Append(st.calls, [queue |-> q, type |-> SendBroadcastBatchType,
                                     org_id |-> bcast.org_id, task |-> batch,
                                     priority |-> DefaultPriority, err |-> err])]

\* as batchIsFull, at twice the batch size
batchIsFull_Double(contacts) == Len(contacts) = 2 * startBatchSize

\* as batchIsFull, one contact later
batchIsFull_Over(contacts) == Len(contacts) > startBatchSize

\* line 125: len(contacts) == startBatchSize
batchIsFull(contacts) == Len(contacts) = startBatchSize

\* lines 124-129: the loop over contactIDs, keys being the contacts still to come in
\* iteration order. An iteration that finds the batch full queues it first (line
\* 126); the iterations up to the next one that can find it full only append (line
\* 128) and are taken in one step, one iteration at least
RECURSIVE batchContacts(_, _, _, _, _, _, _)
batchContacts(bcast, q, split, order, failure, keys, st) ==
    IF keys = <<>> THEN st
    ELSE IF batchIsFull(st.contacts)
    THEN batchContacts(bcast, q, split, order, failure, keys,
                       queueBatch(bcast, q, split, order, failure, st, FALSE))
    ELSE LET room == startBatchSize - Len(st.contacts)
             n == IF room < 1 THEN 1 ELSE IF Len(keys) < room THEN Len(keys) ELSE room
         IN  batchContacts(bcast, q, split, order, failure, SubSeq(keys, n + 1, Len(keys)),
                           [st EXCEPT !.contacts = @ \o SubSeq(keys, 1, n)])

\* what a run that made no queue.AddTask call leaves
NoBatches(ret) ==
    [ret |-> ret, resolved |-> FALSE, contactIDs |-> {}, urnMap |-> <<>>, calls |-> <<>>,
     logged |-> <<>>]

\* a run that logs nothing
loggedErrors_None(calls) == <<>>

\* lines 117-119: the errors logged, one for every queue.AddTask that failed
loggedErrors(calls) ==
    LET failed == SelectSeq(calls, LAMBDA c : c.err)
    IN  [i \in DOMAIN failed |-> "error while queuing broadcast batch"]

\* lines 47-135
CreateBroadcastBatches(bcast, env) ==
    LET contactIDs == collectContactIDs(bcast, ContactIDsForGroupIDs(env))
        q == selectQueue(contactIDs)
        split == splitURNs(env.urnMap, OrderedURNs(env.urnMap, env.urnOrder), 1,
                           [contactIDs |-> contactIDs, repeatedContacts |-> <<>>,
                            urnContacts |-> <<>>])
        batched == batchContacts(bcast, q, split, env.order, env.failure,
                                 Ordered(split.contactIDs, env.order),
                                 [contacts |-> <<>>, calls |-> <<>>])
        last == queueBatch(bcast, q, split, env.order, env.failure, batched, TRUE)
    IN  IF env.failure = "org" THEN NoBatches("error getting org assets")
        ELSE IF env.failure = "session" THEN NoBatches("error getting session assets")
        ELSE IF env.failure = "urns" THEN NoBatches("error getting contact ids for urns")
        ELSE [ret |-> Nil, resolved |-> TRUE, contactIDs |-> contactIDs,
              urnMap |-> env.urnMap, calls |-> last.calls,
              logged |-> loggedErrors(last.calls)]

\* as handleSendBroadcast, without the test of the task's type
handleSendBroadcast_AnyType(task, env) ==
    IF env.failure = "decode" THEN NoBatches("error unmarshalling broadcast")
    ELSE CreateBroadcastBatches(task.task, env)

\* lines 29-44
handleSendBroadcast(task, env) ==
    IF task.type # SendBroadcastType
    THEN NoBatches("unknown event type passed to send worker")
    ELSE IF env.failure = "decode" THEN NoBatches("error unmarshalling broadcast")
    ELSE CreateBroadcastBatches(task.task, env)

\* queue.AddTask as called on line 116: the tasks a queue holds after the calls made to it
Enqueue(queue, name, calls) ==
    LET added == SelectSeq(calls, LAMBDA c : c.queue = name /\ ~c.err)
    IN  queue \o [i \in DOMAIN added |->
                    [type |-> added[i].type, org_id |-> added[i].org_id,
                     task |-> added[i].task, priority |-> added[i].priority]]

Broadcasts ==
    [id : {1}, org_id : {1}, contact_ids : ContactIDLists, urns : {URNs}]

\* the environments of a run
Environments ==
    {[members |-> lo..(lo + size - 1), urnMap |-> urnMap, urnOrder |-> urnOrder,
      order |-> order, failure |-> failure] :
        lo \in GroupLows, size \in GroupSizes, urnOrder \in MapOrders, order \in MapOrders,
        failure \in Failures,
        urnMap \in UNION {[us -> URNOwners] : us \in SUBSET URNs}}

\* a worker takes a task that was queued as send_broadcast and handles it
TaskSendBroadcast(envs) ==
    /\ fanout.state = "call"
    /\ \E env \in envs :
          /\ env.failure = "type" <=> fanout.task.type # SendBroadcastType
          /\ LET run == handleSendBroadcast(fanout.task, env)
             IN  /\ fanout' = [state |-> "done", task |-> fanout.task, env |-> env] @@ run
                 /\ handlerQueue' = Enqueue(handlerQueue, HandlerQueue, run.calls)
                 /\ batchQueue' = Enqueue(batchQueue, BatchQueue, run.calls)
    /\ UNCHANGED <<sent, courier, sendCall>>

InitFanout ==
    /\ IdleFires
    /\ IdleSchedule
    /\ IdleHooks
    /\ IdleFlows
    /\ IdleLoads
    /\ IdlePool
    /\ IdleWeb
    /\ handlerQueue = <<>>
    /\ batchQueue = <<>>
    /\ sent = {}
    /\ courier = <<>>
    /\ sendCall = [state |-> "none"]
    /\ \E bcast \in Broadcasts, type \in {SendBroadcastType, SendBroadcastBatchType} :
          fanout = [state |-> "call",
                    task |-> [type |-> type, org_id |-> bcast.org_id, task |-> bcast,
                              priority |-> DefaultPriority]]

NextFanout == TaskSendBroadcast(Environments) /\ UNCHANGED <<fireVars, sched, hookVars, flowLookup, loaded, inProgress, webVars>>

SpecFanout == InitFanout /\ [][NextFanout]_vars

(***************************************************************************)
(* Broadcast batch worker (src/broadcasts/worker.go, lines 137-194)        *)
(***************************************************************************)

\* what can go wrong when a batch is sent: nothing, the task is of another type, its
\* body does not decode, or one of the calls on lines 168, 173, 179 and 188 fails
SendFailures == {"none", "type", "decode", "org", "session", "messages", "courier"}

\* as marksSent, at the end of the successful path instead of deferred
marksSent_OnSuccessOnly(bcast, ret) == bcast.is_last /\ ret = Nil

\* as marksSent, for every batch
marksSent_EveryBatch(bcast, ret) == TRUE

\* lines 159-166: whether the deferred function calls models.MarkBroadcastSent, for
\* the value the function returns
marksSent(bcast, ret) == bcast.is_last

\* lines 168-193: the value returned
sendResult(failure) ==
    IF failure = "org" THEN "error getting org assets"
    ELSE IF failure = "session" THEN "error getting session assets"
    ELSE IF failure = "messages" THEN "error creating broadcast messages"
    ELSE IF failure = "courier" THEN "error queuing broadcast messages"
    ELSE Nil

\* what a handler that did not call SendBroadcastBatch leaves
NotSent(ret) ==
    [ret |-> ret, called |-> FALSE, queued |-> FALSE, markCalled |-> FALSE, marked |-> FALSE]

\* lines 157-194; markErr: models.MarkBroadcastSent fails when called
SendBroadcastBatch(bcast, failure, markErr) ==
    LET ret == sendResult(failure)
        markCalled == marksSent(bcast, ret)
    IN  [ret |-> ret, called |-> TRUE, queued |-> ret = Nil,
         markCalled |-> markCalled, marked |-> markCalled /\ ~markErr]

\* lines 138-154
handleSendBroadcastBatch(task, failure, markErr) ==
    IF task.type # SendBroadcastBatchType
    THEN NotSent("unknown event type passed to send worker")
    ELSE IF failure = "decode" THEN NotSent("error unmarshalling broadcast")
    ELSE SendBroadcastBatch(task.task, failure, markErr)

\* a worker takes the oldest task of one of the queues and handles it
TaskSendBroadcastBatch ==
    \E name \in {HandlerQueue, BatchQueue}, failure \in SendFailures, markErr \in BOOLEAN :
        LET queue == IF name = HandlerQueue THEN handlerQueue ELSE batchQueue
        IN  /\ queue # <<>>
            /\ failure = "type" <=> Head(queue).type # SendBroadcastBatchType
            /\ LET task == Head(queue)
                   run == handleSendBroadcastBatch(task, failure, markErr)
               IN  /\ sendCall' = [state |-> "done", task |-> task, failure |-> failure,
                                   markErr |-> markErr] @@ run
                   /\ sent' = IF run.marked THEN sent \cup {task.task.broadcast_id}
                              ELSE sent
                   /\ courier' = IF run.queued
                                 THEN Append(courier, [broadcast_id |-> task.task.broadcast_id,
                                                       contact_ids |-> task.task.contact_ids,
                                                       urns |-> task.task.urns])
                                 ELSE courier
            /\ handlerQueue' = IF name = HandlerQueue THEN Tail(handlerQueue)
                               ELSE handlerQueue
            /\ batchQueue' = IF name = BatchQueue THEN Tail(batchQueue) ELSE batchQueue
            /\ UNCHANGED fanout

\* the environments of the runs whose batches are sent: a group of no contact or of
\* one more than a full batch, at most one URN, with or without a failing queue.AddTask
SendEnvironments ==
    {[members |-> 1..size, urnMap |-> urnMap, urnOrder |-> "asc", order |-> "asc",
      failure |-> failure] :
        size \in {0, startBatchSize + 1}, failure \in {"none", "type", "task1"},
        urnMap \in {<<>>, URNList[1] :> 1}}

InitSend == InitFanout

NextSend ==
    \/ TaskSendBroadcast(SendEnvironments) /\ UNCHANGED <<fireVars, sched, hookVars, flowLookup, loaded, inProgress, webVars>>
    \/ TaskSendBroadcastBatch /\ UNCHANGED <<fireVars, sched, hookVars, flowLookup, loaded, inProgress, webVars>>

SpecSend == InitSend /\ [][NextSend]_vars

(***************************************************************************)
(* Redelivery and misrouted tasks (src/broadcasts/worker.go, lines 28-194) *)
(*                                                                         *)
(* The broker delivers a task at least once: a task that was handled can   *)
(* be handed to its handler again. A task can also reach a handler that is *)
(* registered for another type.                                            *)
(***************************************************************************)

\* a task of type send_broadcast whose body decodes as a batch, in the batch queue
StrayTask ==
    [type |-> SendBroadcastType, org_id |-> 1,
     task |-> [broadcast_id |-> 1, org_id |-> 1, contact_ids |-> <<1>>, is_last |-> TRUE,
               urns |-> <<>>],
     priority |-> DefaultPriority]

\* the send_broadcast task is handed to handleSendBroadcast a second time
RedeliverSendBroadcast(envs) ==
    /\ fanout.state = "done"
    /\ \E env \in envs :
          /\ env.failure = "type" <=> fanout.task.type # SendBroadcastType
          /\ LET run == handleSendBroadcast(fanout.task, env)
             IN  /\ fanout' = [state |-> "redone", task |-> fanout.task, env |-> env] @@ run
                 /\ handlerQueue' = Enqueue(handlerQueue, HandlerQueue, run.calls)
                 /\ batchQueue' = Enqueue(batchQueue, BatchQueue, run.calls)
    /\ UNCHANGED <<sent, courier, sendCall>>

\* the send_broadcast_batch task handled last is handed to handleSendBroadcastBatch a
\* second time
RedeliverSendBroadcastBatch ==
    /\ sendCall.state = "done"
    /\ \E failure \in SendFailures, markErr \in BOOLEAN :
          /\ failure = "type" <=> sendCall.task.type # SendBroadcastBatchType
          /\ LET task == sendCall.task
                 run == handleSendBroadcastBatch(task, failure, markErr)
             IN  /\ sendCall' = [state |-> "redone", task |-> task, failure |-> failure,
                                 markErr |-> markErr] @@ run
                 /\ sent' = IF run.marked THEN sent \cup {task.task.broadcast_id}
                            ELSE sent
                 /\ courier' = IF run.queued
                               THEN Append(courier, [broadcast_id |-> task.task.broadcast_id,
                                                     contact_ids |-> task.task.contact_ids,
                                                     urns |-> task.task.urns])
                               ELSE courier
    /\ UNCHANGED <<handlerQueue, batchQueue, fanout>>

\* the environments of the runs that are redelivered: as SendEnvironments, without
\* a failing queue.AddTask, and with a body that does not decode
WorkerEnvironments ==
    {[members |-> 1..size, urnMap |-> urnMap, urnOrder |-> "asc", order |-> "asc",
      failure |-> failure] :
        size \in {0, startBatchSize + 1}, failure \in {"none", "type", "decode"},
        urnMap \in {<<>>, URNList[1] :> 1}}

InitWorker ==
    /\ IdleFires
    /\ IdleSchedule
    /\ IdleHooks
    /\ IdleFlows
    /\ IdleLoads
    /\ IdlePool
    /\ IdleWeb
    /\ handlerQueue = <<>>
    /\ batchQueue \in {<<>>, <<StrayTask>>}
    /\ sent = {}
    /\ courier = <<>>
    /\ sendCall = [state |-> "none"]
    /\ \E bcast \in Broadcasts, type \in {SendBroadcastType, SendBroadcastBatchType} :
          fanout = [state |-> "call",
                    task |-> [type |-> type, org_id |-> bcast.org_id, task |-> bcast,
                              priority |-> DefaultPriority]]

NextWorker ==
    \/ TaskSendBroadcast(WorkerEnvironments) /\ UNCHANGED <<fireVars, sched, hookVars, flowLookup, loaded, inProgress, webVars>>
    \/ TaskSendBroadcastBatch /\ UNCHANGED <<fireVars, sched, hookVars, flowLookup, loaded, inProgress, webVars>>
    \/ RedeliverSendBroadcast(WorkerEnvironments) /\ UNCHANGED <<fireVars, sched, hookVars, flowLookup, loaded, inProgress, webVars>>
    \/ RedeliverSendBroadcastBatch /\ UNCHANGED <<fireVars, sched, hookVars, flowLookup, loaded, inProgress, webVars>>

SpecWorker == InitWorker /\ [][NextWorker]_vars

(***************************************************************************)
(* Concurrent workers (src/broadcasts/worker.go, lines 137-194)            *)
(*                                                                         *)
(* Several workers pull tasks from the queues and handle them at the same  *)
(* time. The worker loop and the queues are not part of the sources at     *)
(* hand: following the specification of the queue dispatcher, a worker     *)
(* pulls any task of a queue (tasks of one priority are in no guaranteed   *)
(* order) and holds it until its handler returns.                          *)
(***************************************************************************)

PoolWorkers == {"p1", "p2"}

\* a worker that holds no task
Free == [state |-> "free"]

\* the i-th task taken out of a queue
Without(queue, i) == SubSeq(queue, 1, i - 1) \o SubSeq(queue, i + 1, Len(queue))

\* the environments of the runs whose batches the pool handles: a group of no
\* contact, or filling one or two batches and one contact more
PoolEnvironments ==
    {[members |-> 1..size, urnMap |-> urnMap, urnOrder |-> "asc", order |-> "asc",
      failure |-> failure] :
        size \in {0, startBatchSize + 1, 2 * startBatchSize + 1},
        failure \in {"none", "type"},
        urnMap \in {<<>>, URNList[1] :> 1}}

InitPool ==
    /\ IdleFires
    /\ IdleSchedule
    /\ IdleHooks
    /\ IdleFlows
    /\ IdleLoads
    /\ IdleWeb
    /\ handlerQueue = <<>>
    /\ batchQueue = <<>>
    /\ sent = {}
    /\ courier = <<>>
    /\ sendCall = [state |-> "none"]
    /\ inProgress = [w \in PoolWorkers |-> Free]
    /\ \E bcast \in Broadcasts, type \in {SendBroadcastType, SendBroadcastBatchType} :
          fanout = [state |-> "call",
                    task |-> [type |-> type, org_id |-> bcast.org_id, task |-> bcast,
                              priority |-> DefaultPriority]]

\* a free worker pulls a task from one of the queues
PullTask(w) ==
    /\ inProgress[w] = Free
    /\ \E name \in {HandlerQueue, BatchQueue} :
          LET queue == IF name = HandlerQueue THEN handlerQueue ELSE batchQueue
          IN  \E i \in DOMAIN queue :
                 /\ inProgress' = [inProgress EXCEPT ![w] = [state |-> "busy",
                                                             task |-> queue[i]]]
                 /\ handlerQueue' = IF name = HandlerQueue THEN Without(queue, i)
                                    ELSE handlerQueue
                 /\ batchQueue' = IF name = BatchQueue THEN Without(queue, i)
                                  ELSE batchQueue
    /\ UNCHANGED <<fanout, sent, courier, sendCall>>

\* lines 138-194: the handler of the task a worker holds runs to its end
FinishTask(w) ==
    /\ inProgress[w] # Free
    /\ \E failure \in SendFailures, markErr \in BOOLEAN :
          LET task == inProgress[w].task
              run == handleSendBroadcastBatch(task, failure, markErr)
          IN  /\ failure = "type" <=> task.type # SendBroadcastBatchType
              /\ sendCall' = [state |-> "done", task |-> task, failure |-> failure,
                              markErr |-> markErr] @@ run
              /\ sent' = IF run.marked THEN sent \cup {task.task.broadcast_id} ELSE sent
              /\ courier' = IF run.queued
                            THEN Append(courier, [broadcast_id |-> task.task.broadcast_id,
                                                  contact_ids |-> task.task.contact_ids,
                                                  urns |-> task.task.urns])
                            ELSE courier
    /\ inProgress' = [inProgress EXCEPT ![w] = Free]
    /\ UNCHANGED <<fanout, handlerQueue, batchQueue>>

NextPool ==
    \/ TaskSendBroadcast(PoolEnvironments) /\ UNCHANGED <<fireVars, sched, hookVars, flowLookup, loaded, inProgress, webVars>>
    \/ \E w \in PoolWorkers :
          PullTask(w) /\ UNCHANGED <<fireVars, sched, hookVars, flowLookup, loaded, webVars>>
    \/ \E w \in PoolWorkers :
          FinishTask(w) /\ UNCHANGED <<fireVars, sched, hookVars, flowLookup, loaded, webVars>>

SpecPool == InitPool /\ [][NextPool]_vars

(***************************************************************************)
(* Language change hook (src/unnamed/part_000)                             *)
(*                                                                         *)
(* A session accumulates, per commit hook, the events handled for it; the  *)
(* commit of a set of sessions applies every hook that has events. The     *)
(* accumulation (Session.AddPreCommitEvent), the commit and models.BulkSQL *)
(* are not part of the sources at hand and follow the specification of the *)
(* hook registry.                                                          *)
(***************************************************************************)

\* the largest number of events a session accumulates in the model
MaxEvents == 3

\* the sessions of one commit, and the contact of each
Sessions == {"s1", "s2"}

\* a third session, of the contact of the first
SharedSessions == {"s1", "s3"}

SessionContactID(s) == IF s = "s2" THEN 2 ELSE 1

Languages == {"A", "B", "C"}

\* the language of every contact before the commit
NoLanguage == "none"

\* line 21: the one hook of the process for language changes
commitLanguageChangesHook == "CommitLanguageChangesHook"

Hooks == {commitLanguageChangesHook}

\* events.ContactLanguageChangedEvent
ContactLanguageChangedEvents == [type : {"contact_language_changed"}, language : Languages]

\* Session.AddPreCommitEvent(hook, event): the event goes to the end of the session's
\* list for the hook
AddPreCommitEvent(pre, session, hook, event) ==
    [pre EXCEPT ![session][hook] = Append(@, event)]

\* as handleContactLanguageChanged, writing the language to the contact at once
handleContactLanguageChanged_WritesNow(st, session, e) ==
    [preCommits |-> AddPreCommitEvent(st.preCommits, session, commitLanguageChangesHook, e),
     contactLanguage |-> [st.contactLanguage EXCEPT ![SessionContactID(session)] = e.language]]

\* lines 38-48: st is the sessions' accumulated events and the contacts table
handleContactLanguageChanged(st, session, e) ==
    [preCommits |-> AddPreCommitEvent(st.preCommits, session, commitLanguageChangesHook, e),
     contactLanguage |-> st.contactLanguage]

\* as lastEvent, with the first event of the list
lastEvent_First(e) == e[1]

\* line 29: e[len(e)-1]
lastEvent(e) == e[Len(e)]

\* lines 26-31: the updates built from the session -> events map, keys being the
\* sessions of the map in Go's iteration order
languageUpdates(sessions, keys) ==
    [i \in DOMAIN keys |->
        [id |-> SessionContactID(keys[i]), language |-> lastEvent(sessions[keys[i]]).language]]

\* lines 56-68 run by models.BulkSQL: every row sets the language of its contact
RECURSIVE updateContactLanguageSQL(_, _)
updateContactLanguageSQL(table, updates) ==
    IF updates = <<>> THEN table
    ELSE updateContactLanguageSQL(
             [c \in DOMAIN table |-> IF c = Head(updates).id THEN Head(updates).language
                                     ELSE table[c]],
             Tail(updates))

\* the orders in which the UPDATE can meet the rows of its VALUES list: when two rows
\* join the same contact, which of them sets the language is not defined
JoinOrders(updates) ==
    {[i \in DOMAIN updates |-> updates[perm[i]]] :
        perm \in {f \in [DOMAIN updates -> DOMAIN updates] :
                     \A i \in DOMAIN updates : \E j \in DOMAIN updates : f[j] = i}}

\* the session -> events map a commit passes to a hook: the sessions that have
\* events for the hook, each with its list
SessionsOf(pre, hook) ==
    LET with == {s \in DOMAIN pre : pre[s][hook] # <<>>}
    IN  [s \in with |-> pre[s][hook]]

\* the orders Go can iterate the keys of a session map in
KeyOrders(sessions) ==
    {keys \in UNION {[1..n -> DOMAIN sessions] : n \in {Cardinality(DOMAIN sessions)}} :
        \A s \in DOMAIN sessions : \E i \in DOMAIN keys : keys[i] = s}

InitHooks ==
    /\ IdleFires
    /\ IdleSchedule
    /\ IdleBroadcasts
    /\ IdleFlows
    /\ IdleLoads
    /\ IdlePool
    /\ IdleWeb
    /\ preCommits = [s \in Sessions |-> [h \in Hooks |-> <<>>]]
    /\ contactLanguage = [c \in {SessionContactID(s) : s \in Sessions} |-> NoLanguage]
    /\ applied = <<>>
    /\ committed = "no"

\* a contact_language_changed event of a session is handled
HandleContactLanguageChanged ==
    /\ committed = "no"
    /\ \E session \in DOMAIN preCommits, e \in ContactLanguageChangedEvents :
          /\ Len(preCommits[session][commitLanguageChangesHook]) < MaxEvents
          /\ LET st == handleContactLanguageChanged(
                           [preCommits |-> preCommits, contactLanguage |-> contactLanguage],
                           session, e)
             IN  /\ preCommits' = st.preCommits
                 /\ contactLanguage' = st.contactLanguage
    /\ UNCHANGED <<applied, committed>>

\* lines 24-35 for the hook of a commit: Apply is called with the map of the hook when
\* the map has a session, and its updates reach the contacts table unless models.BulkSQL
\* fails, which aborts the commit
CommitSessions ==
    /\ committed = "no"
    /\ LET sessions == SessionsOf(preCommits, commitLanguageChangesHook)
       IN  IF DOMAIN sessions = {}
           THEN /\ committed' = "done"
                /\ UNCHANGED <<applied, contactLanguage>>
           ELSE \E keys \in KeyOrders(sessions), ok \in BOOLEAN :
                   LET updates == languageUpdates(sessions, keys)
                   IN  \E rows \in JoinOrders(updates) :
                       /\ applied' = Append(applied, [hook |-> commitLanguageChangesHook,
                                                      sessions |-> sessions,
                                                      updates |-> updates, err |-> ~ok])
                       /\ contactLanguage' = IF ok
                                             THEN updateContactLanguageSQL(contactLanguage,
                                                                           rows)
                                             ELSE contactLanguage
                       /\ committed' = IF ok THEN "done" ELSE "aborted"
    /\ UNCHANGED preCommits

NextHooks ==
    \/ HandleContactLanguageChanged /\ UNCHANGED <<fireVars, sched, bcastVars, flowLookup, loaded, inProgress, webVars>>
    \/ CommitSessions /\ UNCHANGED <<fireVars, sched, bcastVars, flowLookup, loaded, inProgress, webVars>>

SpecHooks == InitHooks /\ [][NextHooks]_vars

\* a commit of two sessions that may belong to the same contact
InitSharedContact ==
    /\ IdleFires
    /\ IdleSchedule
    /\ IdleBroadcasts
    /\ IdleFlows
    /\ IdleLoads
    /\ IdlePool
    /\ IdleWeb
    /\ \E sessions \in {Sessions, SharedSessions} :
          preCommits = [s \in sessions |-> [h \in Hooks |-> <<>>]]
    /\ contactLanguage = [c \in {SessionContactID(s) : s \in Sessions} |-> NoLanguage]
    /\ applied = <<>>
    /\ committed = "no"

SpecSharedContact == InitSharedContact /\ [][NextHooks]_vars

(***************************************************************************)
(* Flow lookup (src/unnamed/part_002)                                      *)
(*                                                                         *)
(* The sources at hand hold the test of the lookups, not the lookups: the  *)
(* flows table, loadFlowByUUID, loadFlowByID and the config value getters  *)
(* are modelled as the test of lines 12-59 observes them.                  *)
(***************************************************************************)

\* Org1 and Org2
Orgs == {1, 2}

\* the ids of the flows there can be, and FlowID(0), the id of no flow
FlowIDs == {1, 2}

NoFlowID == 0

\* FavoritesFlowUUID, the UUID of line 25 and a third one
FlowUUIDs == {"favorites", "51e3c67d", "other"}

\* a nil *Flow
NoFlow == [nil |-> TRUE]

\* the rows there can be in the flows table: the Favorites flow of the test (line 24)
\* in Org1, and flows of either org under the other id and UUIDs
FlowRows ==
    {[nil |-> FALSE, org_id |-> 1, id |-> 1, uuid |-> "favorites", name |-> "Favorites",
      config |-> [expires |-> "720", name |-> "Favorites"]]} \cup
    {[nil |-> FALSE, org_id |-> org, id |-> 2, uuid |-> uuid, name |-> "Other",
      config |-> [name |-> "Other"]] : org \in Orgs, uuid \in {"51e3c67d", "other"}}

\* the flows tables: no two rows with the same id or the same UUID
FlowTables ==
    {table \in SUBSET FlowRows :
        \A r1, r2 \in table : (r1.id = r2.id \/ r1.uuid = r2.uuid) => r1 = r2}

\* as loadFlowByUUID, over the flows of every org
loadFlowByUUID_AnyOrg(table, orgID, flowUUID) ==
    IF \E row \in table : row.uuid = flowUUID
    THEN CHOOSE row \in table : row.uuid = flowUUID
    ELSE NoFlow

\* line 29: loadFlowByUUID(ctx, db, orgID, flowUUID)
loadFlowByUUID(table, orgID, flowUUID) ==
    IF \E row \in table : row.org_id = orgID /\ row.uuid = flowUUID
    THEN CHOOSE row \in table : row.org_id = orgID /\ row.uuid = flowUUID
    ELSE NoFlow

\* line 48: loadFlowByID(ctx, db, orgID, flowID)
loadFlowByID(table, orgID, flowID) ==
    IF \E row \in table : row.org_id = orgID /\ row.id = flowID
    THEN CHOOSE row \in table : row.org_id = orgID /\ row.id = flowID
    ELSE NoFlow

\* lines 37-40: flow.IntConfigValue(key, def) and flow.StringConfigValue(key, def)
ConfigValue(flow, key, def) ==
    IF key \in DOMAIN flow.config THEN flow.config[key] ELSE def

\* the keys and defaults the config getters are called with: an integer value
\* (expires) with integer defaults, a string value (name) with a string default, and
\* a key that is not there with either; every value is written as its text
ConfigLookups ==
    {[key |-> "expires", def |-> "0"], [key |-> "expires", def |-> "10"],
     [key |-> "name", def |-> "missing"],
     [key |-> "not_there", def |-> "10"], [key |-> "not_there", def |-> "missing"]}

InitFlows ==
    /\ IdleFires
    /\ IdleSchedule
    /\ IdleBroadcasts
    /\ IdleHooks
    /\ IdleLoads
    /\ IdlePool
    /\ IdleWeb
    /\ \E table \in FlowTables, orgID \in Orgs, flowUUID \in FlowUUIDs,
          flowID \in FlowIDs \cup {NoFlowID}, config \in ConfigLookups :
          flowLookup = [state |-> "call", table |-> table, org_id |-> orgID,
                        uuid |-> flowUUID, id |-> flowID, config |-> config]

\* lines 28-58: the lookups of one test case, and the config getter on a flow found
LoadFlow ==
    /\ flowLookup.state = "call"
    /\ LET byUUID == loadFlowByUUID(flowLookup.table, flowLookup.org_id, flowLookup.uuid)
           byID == loadFlowByID(flowLookup.table, flowLookup.org_id, flowLookup.id)
       IN  flowLookup' =
               [flowLookup EXCEPT !.state = "done"]
                   @@ [byUUID |-> byUUID,
                       byID |-> byID,
                       value |-> IF byUUID.nil THEN flowLookup.config.def
                                 ELSE ConfigValue(byUUID, flowLookup.config.key,
                                                  flowLookup.config.def)]
    /\ UNCHANGED <<fireVars, sched, bcastVars, hookVars, loaded, inProgress, webVars>>

NextFlows == LoadFlow

SpecFlows == InitFlows /\ [][NextFlows]_vars

\* every subsystem from its idle state
(***************************************************************************)
(* Resolving event fires (src/unnamed/part_003, lines 319-434)             *)
(*                                                                         *)
(* A fire worker loads the fires of a task with LoadEventFires and, once   *)
(* the flows are started, reports them with MarkEventsFired. Two workers   *)
(* stand for two deliveries of the same task (the broker delivers at least *)
(* once), or for two tasks naming the same fire.                           *)
(***************************************************************************)

FireWorkers == {"w1", "w2"}

\* the times at which the workers resolve fires
ResolveTimes == {"t1", "t2"}

\* SELECT ... FROM campaigns_eventfire f WHERE f.id IN(?) AND f.fired IS NULL
loadEventFireSQL(fs, ids) == {f \in fs : f.fire_id \in ids /\ f.fired = NULL}

\* the FireID of every fire of a list
fireIDsOf(fs) == {f.fire_id : f \in fs}

InitResolve ==
    /\ IdleFires
    /\ IdleSchedule
    /\ IdleBroadcasts
    /\ IdleHooks
    /\ IdleFlows
    /\ IdlePool
    /\ IdleWeb
    /\ loaded = [w \in FireWorkers |-> {}]

\* LoadEventFires(ctx, db, ids): the rows read, or an error and no rows
LoadEventFires(w) ==
    \E ids \in SUBSET FireIDs, ok \in BOOLEAN :
        LET ret == IF ok THEN loadEventFireSQL(fires, ids) ELSE {}
        IN  /\ lastCall' = [op |-> "LoadEventFires", worker |-> w, ids |-> ids,
                            ret |-> ret, err |-> ~ok]
            /\ loaded' = [loaded EXCEPT ![w] = ret]
            /\ UNCHANGED <<fires, nextFireID>>

\* MarkEventsFired(ctx, tx, fires, fired, result) with the fires the worker loaded
ResolveEventFires(w) ==
    /\ loaded[w] # {}
    /\ MarkEventsFiredOf({fireIDsOf(loaded[w])}, ResolveTimes)
    /\ loaded' = [loaded EXCEPT ![w] = {}]

NextResolve ==
    \/ AddEventFires /\ UNCHANGED <<sched, bcastVars, hookVars, flowLookup, loaded, inProgress, webVars>>
    \/ \E w \in FireWorkers :
          LoadEventFires(w) /\ UNCHANGED <<sched, bcastVars, hookVars, flowLookup, inProgress, webVars>>
    \/ \E w \in FireWorkers :
          ResolveEventFires(w) /\ UNCHANGED <<sched, bcastVars, hookVars, flowLookup, inProgress, webVars>>

SpecResolve == InitResolve /\ [][NextResolve]_vars

(***************************************************************************)
(* Web server: authorization of JSON routes (src/unnamed/part_001,         *)
(* lines 162-207)                                                          *)
(*                                                                         *)
(* A request carries its headers by canonical name; a JSON handler returns *)
(* a value, a status and an error.                                         *)
(***************************************************************************)

StatusOK == 200
StatusNotFound == 404
StatusUnauthorized == 401
StatusInternalServerError == 500

\* the values of s.Config.AuthToken; the empty string is the value of a server with
\* no token configured
AuthTokens == {"", "sesame", "other"}

\* the values of a request's Authorization header
AuthorizationValues ==
    {"", "Token ", "Token sesame", "Token other", "sesame", "token sesame",
     "Token sesame ", "Bearer sesame"}

\* the headers of a request: none, or an Authorization header
Headers == {<<>>} \cup {[Authorization |-> v] : v \in AuthorizationValues}

\* textproto.CanonicalMIMEHeaderKey, for the one key read
canonicalKey(key) == IF key = "authorization" THEN "Authorization" ELSE key

\* r.Header.Get(key): the value of the header, or "" when the request has none
headerGet(header, key) ==
    IF canonicalKey(key) \in DOMAIN header THEN header[canonicalKey(key)] ELSE ""

\* what the wrapped handler returns when it is called; the value "chan" is one that
\* json.MarshalIndent cannot serialize
HandlerResults ==
    {[value |-> "index", status |-> StatusOK, err |-> Nil],
     [value |-> "chan", status |-> StatusOK, err |-> Nil],
     [value |-> Nil, status |-> StatusNotFound, err |-> "not found"],
     [value |-> Nil, status |-> StatusInternalServerError, err |-> "error"]}

\* as RequireAuthToken, without the test for an empty token
RequireAuthToken_AlwaysChecks(handler, authToken, header) ==
    LET auth == headerGet(header, "authorization")
    IN  IF ("Token " \o authToken) # auth
        THEN [value |-> Nil, status |-> StatusUnauthorized,
              err |-> "invalid or missing authorization header, denying", called |-> FALSE]
        ELSE handler @@ [called |-> TRUE]

\* lines 162-173: what the wrapping handler returns for a request; handler is what the
\* wrapped handler returns when called, and called tells whether it was
RequireAuthToken(handler, authToken, header) ==
    LET auth == headerGet(header, "authorization")
    IN  IF authToken # "" /\ ("Token " \o authToken) # auth
        THEN [value |-> Nil, status |-> StatusUnauthorized,
              err |-> "invalid or missing authorization header, denying", called |-> FALSE]
        ELSE handler @@ [called |-> TRUE]

\* lines 176-205: the response written for what the handler returned
WrapJSONHandler(ret) ==
    LET value == IF ret.err # Nil THEN "error: " \o ret.err ELSE ret.value
    IN  IF value = "chan"
        THEN [status |-> StatusInternalServerError,
              body |-> "error: error serializing handler response"]
        ELSE [status |-> ret.status, body |-> value]

InitWeb ==
    /\ IdleFires
    /\ IdleSchedule
    /\ IdleBroadcasts
    /\ IdleHooks
    /\ IdleFlows
    /\ IdleLoads
    /\ IdlePool
    /\ server = [state |-> "idle"]
    /\ \E authToken \in AuthTokens, header \in Headers, handler \in HandlerResults :
          request = [state |-> "call", auth_token |-> authToken, header |-> header,
                     handler |-> handler]

\* a request to a route registered with RequireAuthToken(handler) is served
ServeJSON ==
    /\ request.state = "call"
    /\ LET ret == RequireAuthToken(request.handler, request.auth_token, request.header)
       IN  request' = [request EXCEPT !.state = "done"]
                          @@ [ret |-> ret, response |-> WrapJSONHandler(ret)]
    /\ UNCHANGED <<fireVars, sched, bcastVars, hookVars, flowLookup, loaded, inProgress, server>>

NextWeb == ServeJSON

SpecWeb == InitWeb /\ [][NextWeb]_vars

(***************************************************************************)
(* Web server: start and stop (src/unnamed/part_001, lines 226-252)        *)
(*                                                                         *)
(* Start spawns the serving goroutine, which registers with the wait group *)
(* the server shares with the other components, serves until the server is *)
(* shut down and then signs off. The wait group is sync.WaitGroup of Go    *)
(* 1.12: a counter v and a number of waiters w that change atomically; a   *)
(* Done that brings the counter to zero with waiters present releases them *)
(* in a second step, and the misuses the wait group detects panic.         *)
(***************************************************************************)

\* how many goroutines of other components are registered with the wait group when
\* the server is created
OtherCounts == {0, 1, 2, 3}

\* wg.Add(delta), lines 230-231 (Done is Add(-1)): the wait group after the atomic
\* add, and what the caller does next: it panics, it has to release the waiters, or it
\* is done
wgAdd(wg, delta) ==
    LET v == wg.v + delta
    IN  [wg |-> [wg EXCEPT !.v = v],
         next |-> IF v < 0 THEN "panic"
                  ELSE IF wg.w # 0 /\ delta > 0 /\ v = delta THEN "panic"
                  ELSE IF v > 0 \/ wg.w = 0 THEN "done"
                  ELSE "release"]

InitServer ==
    /\ IdleFires
    /\ IdleSchedule
    /\ IdleBroadcasts
    /\ IdleHooks
    /\ IdleFlows
    /\ IdleLoads
    /\ IdlePool
    /\ request = [state |-> "idle"]
    /\ \E others \in OtherCounts :
          server = [state |-> "new", main |-> "new", serving |-> "none", http |-> "new",
                    others |-> others, releasing |-> "none", wg |-> [v |-> others, w |-> 0],
                    logged |-> FALSE, panic |-> FALSE]

\* lines 227-244: Start spawns the goroutine, logs and returns
Start ==
    /\ server.state = "new"
    /\ server.main = "new"
    /\ server' = [server EXCEPT !.main = "started", !.serving = "spawned"]

\* line 230: the goroutine calls s.wg.Add(1)
GoAdd ==
    /\ server.serving = "spawned"
    /\ ~server.panic
    /\ LET add == wgAdd(server.wg, 1)
       IN  server' = [server EXCEPT !.wg = add.wg,
                                    !.serving = IF add.next = "panic" THEN "panicked"
                                                ELSE "added",
                                    !.panic = add.next = "panic"]

\* lines 233-240: s.httpServer.ListenAndServe() returns http.ErrServerClosed at once
\* when the server was shut down, fails to listen (the error is logged), or serves
GoListenAndServe ==
    /\ server.serving = "added"
    /\ ~server.panic
    /\ IF server.http = "closed"
       THEN server' = [server EXCEPT !.serving = "returned"]
       ELSE \E ok \in BOOLEAN :
               server' = IF ok
                         THEN [server EXCEPT !.serving = "serving", !.http = "listening"]
                         ELSE [server EXCEPT !.serving = "returned", !.logged = TRUE]

\* lines 247-252: Stop shuts the HTTP server down; a ListenAndServe that is serving
\* returns http.ErrServerClosed
Stop ==
    /\ server.state = "new"
    /\ server.main # "new"
    /\ server.http # "closed"
    /\ ~server.panic
    /\ server' = [server EXCEPT !.http = "closed",
                                !.serving = IF @ = "serving" THEN "returned" ELSE @]

\* line 231: the deferred s.wg.Done() of the goroutine
GoDone ==
    /\ server.serving = "returned"
    /\ ~server.panic
    /\ LET add == wgAdd(server.wg, -1)
       IN  server' = [server EXCEPT !.wg = add.wg,
                                    !.serving = IF add.next = "panic" THEN "panicked"
                                                ELSE IF add.next = "release" THEN "releasing"
                                                ELSE "finished",
                                    !.releasing = IF add.next = "release" THEN "serving"
                                                  ELSE @,
                                    !.panic = add.next = "panic"]

\* a goroutine of another component calls Done on the shared wait group
OtherDone ==
    /\ server.state = "new"
    /\ server.others > 0
    /\ server.releasing # "other"
    /\ ~server.panic
    /\ LET add == wgAdd(server.wg, -1)
       IN  server' = [server EXCEPT !.wg = add.wg,
                                    !.others = @ - 1,
                                    !.releasing = IF add.next = "release" THEN "other" ELSE @,
                                    !.panic = add.next = "panic"]

\* the second step of a Done that found the counter at zero with waiters: it panics
\* when the wait group has changed since, and else resets it and wakes the waiters
Release ==
    /\ server.state = "new"
    /\ server.releasing # "none"
    /\ ~server.panic
    /\ LET misuse == server.wg.v # 0
       IN  server' = [server EXCEPT
                         !.releasing = "none",
                         !.panic = misuse,
                         !.wg = IF misuse THEN @ ELSE [v |-> 0, w |-> 0],
                         !.main = IF ~misuse /\ @ = "waiting" THEN "woken" ELSE @,
                         !.serving = IF server.releasing = "serving"
                                     THEN (IF misuse THEN "panicked" ELSE "finished")
                                     ELSE @]

\* s.wg.Wait() called after Start has returned: it returns at once when the counter
\* is zero, and else counts itself as a waiter and blocks
Wait ==
    /\ server.state = "new"
    /\ server.main = "started"
    /\ ~server.panic
    /\ server' = IF server.wg.v = 0
                 THEN [server EXCEPT !.main = "waited"]
                 ELSE [server EXCEPT !.main = "waiting", !.wg.w = @ + 1]

\* a woken Wait returns, or panics when the wait group is in use again
WaitReturns ==
    /\ server.state = "new"
    /\ server.main = "woken"
    /\ ~server.panic
    /\ server' = IF server.wg.v # 0 \/ server.wg.w # 0
                 THEN [server EXCEPT !.main = "panicked", !.panic = TRUE]
                 ELSE [server EXCEPT !.main = "waited"]

NextServer ==
    \/ Start /\ UNCHANGED <<fireVars, sched, bcastVars, hookVars, flowLookup, loaded, inProgress, request>>
    \/ GoAdd /\ UNCHANGED <<fireVars, sched, bcastVars, hookVars, flowLookup, loaded, inProgress, request>>
    \/ GoListenAndServe /\ UNCHANGED <<fireVars, sched, bcastVars, hookVars, flowLookup, loaded, inProgress, request>>
    \/ Stop /\ UNCHANGED <<fireVars, sched, bcastVars, hookVars, flowLookup, loaded, inProgress, request>>
    \/ GoDone /\ UNCHANGED <<fireVars, sched, bcastVars, hookVars, flowLookup, loaded, inProgress, request>>
    \/ OtherDone /\ UNCHANGED <<fireVars, sched, bcastVars, hookVars, flowLookup, loaded, inProgress, request>>
    \/ Release /\ UNCHANGED <<fireVars, sched, bcastVars, hookVars, flowLookup, loaded, inProgress, request>>
    \/ Wait /\ UNCHANGED <<fireVars, sched, bcastVars, hookVars, flowLookup, loaded, inProgress, request>>
    \/ WaitReturns /\ UNCHANGED <<fireVars, sched, bcastVars, hookVars, flowLookup, loaded, inProgress, request>>

SpecServer == InitServer /\ [][NextServer]_vars

Init ==
    \/ InitFires \/ InitResolve \/ InitSchedule \/ InitContact \/ InitFanout \/ InitWorker
    \/ InitPool
    \/ InitHooks \/ InitSharedContact \/ InitFlows \/ InitWeb \/ InitServer

Next ==
    \/ NextFires \/ NextResolve \/ NextSchedule \/ NextContact \/ NextFanout \/ NextSend
    \/ NextWorker \/ NextPool \/ NextHooks \/ NextFlows \/ NextWeb \/ NextServer

Spec == Init /\ [][Next]_vars

(***************************************************************************)
(* Claims about the event fire store                                       *)
(***************************************************************************)

\* call is a successful delete-unfired that targets pair p: DeleteUnfiredEventFires
\* with p among its removes, or DeleteUnfiredContactEvents for p's contact
DeletesUnfiredOf(call, p) ==
    \/ /\ call.op = "DeleteUnfiredEventFires"
       /\ ~call.err
       /\ \E i \in DOMAIN call.removes : call.removes[i] = p
    \/ /\ call.op = "DeleteUnfiredContactEvents"
       /\ ~call.err
       /\ call.contactID = p.contact_id

\* call is a successful AddEventFires
AddsFires(call) == call.op = "AddEventFires" /\ ~call.err

\* C1 as stated: fire uniqueness. After any sequence of delete-unfired and
\* add-fires operations, at most one row with fired = null exists for each
\* (event, contact) pair.
C1_FireUniqueness ==
    \A p \in Pairs : Cardinality(Unfired(fires, p)) <= 1

\* C1 as amended: the store keeps fire uniqueness only under the caller's protocol.
\* A successful delete-unfired for a pair directly followed by a successful
\* AddEventFires leaves exactly as many unfired rows for the pair as the add lists
\* it (none before the add, one per entry after it): at most one when the add lists
\* the pair at most once. A successful DeleteEventFires removes exactly the unfired
\* rows whose ids it is given.
C1_UniqueUnderProtocol ==
    [][\A p \in Pairs :
          /\ (DeletesUnfiredOf(lastCall, p) /\ AddsFires(lastCall'))
                => Cardinality(Unfired(fires', p)) = CountIn(lastCall'.adds, p)
          /\ (lastCall'.op = "DeleteEventFires" /\ ~lastCall'.err)
                => Unfired(fires', p) =
                      {f \in Unfired(fires, p) : f.fire_id \notin lastCall'.ids}
      ]_vars

\* C1's case: an add that follows the protocol for a pair with fired history has
\* left exactly one unfired row beside the fired one
C1_Witness ==
    /\ AddsFires(lastCall)
    /\ \E p \in Pairs :
          /\ CountIn(lastCall.adds, p) = 1
          /\ Cardinality(Unfired(fires, p)) = 1
          /\ \E f \in fires : /\ f.contact_id = p.contact_id
                              /\ f.event_id = p.event_id
                              /\ f.fired # NULL

\* the operations of the store that delete rows
DeleteOps == {"DeleteEventFires", "DeleteUnfiredEventFires", "DeleteUnfiredContactEvents"}

\* C15: fired history is immutable under deletion. No delete operation of the store
\* (DeleteEventFires, DeleteUnfiredEventFires, DeleteUnfiredContactEvents) removes a
\* row whose fired time is not null, whatever its arguments.
C15_FiredRowsNeverDeleted ==
    [][lastCall'.op \in DeleteOps =>
          \A f \in fires : f.fired # NULL => f \in fires']_vars

\* DeleteEventFires was given the id of a fired row and succeeded; the row is there
C15_Witness ==
    /\ lastCall.op = "DeleteEventFires"
    /\ ~lastCall.err
    /\ \E f \in fires : f.fired # NULL /\ f.fire_id \in lastCall.ids

(***************************************************************************)
(* Claims about the campaign scheduler                                     *)
(***************************************************************************)

\* ScheduleForTime has returned without an error
Scheduled == sched.state = "done" /\ ~sched.ret.err

\* ScheduleForTime has returned a timestamp
Fires == Scheduled /\ sched.ret.fire

\* instant t is strictly earlier than instant u
Earlier(t, u) == t.s < u.s \/ (t.s = u.s /\ t.ns < u.ns)

\* the start rounded up to a whole minute of the wall clock of tz: the start itself
\* when it has no seconds and no nanoseconds, else the next whole minute
RoundUpToMinute(start, tz) ==
    IF abs(start, tz) % 60 = 0 /\ start.ns = 0
       THEN start
       ELSE [s |-> start.s + (60 - (abs(start, tz) % 60)), ns |-> 0]

\* some instant has wall clock reading wall in loc (no transition of loc skips it)
WallExists(wall, loc) ==
    \E o \in {loc.before, loc.after} : lookup(loc, wall - o) = o

\* the instants one of loc's two offsets away from wall clock reading wall
Displaced(wall, loc) == {wall - loc.before, wall - loc.after}

\* the days a day or week offset adds
OffsetDays(e) == IF e.unit = OffsetWeek THEN 7 * e.offset ELSE e.offset

\* C8 as stated: ScheduleForTime returns "no fire" whenever the computed instant is
\* not strictly after now (equal to now included), and a timestamp only when the
\* computed instant is strictly after now.
C8_NoFireUnlessStrictlyAfterNow ==
    Scheduled => (sched.ret.fire <=> Earlier(sched.now, sched.ret.scheduled))

\* C8 as amended: ScheduleForTime returns "no fire" exactly when the computed instant
\* is strictly before now; a computed instant equal to now is returned as the
\* timestamp, like every later one.
C8_NoFireIffBeforeNow ==
    Scheduled =>
        /\ sched.ret.fire <=> ~Earlier(sched.ret.scheduled, sched.now)
        /\ sched.ret.fire => sched.ret.at = sched.ret.scheduled

\* C8's case: the computed instant equals now, and it is returned
C8_Witness ==
    Fires /\ sched.ret.scheduled = sched.now /\ sched.ret.at = sched.now

\* C9 as stated: with the delivery hour unset, a returned timestamp equals the start
\* rounded up to the minute plus the offset: that many minutes or hours later, or
\* that many (or seven times that many) days later, be it read as the same wall
\* clock time on the later date or as that many times 24 hours.
C9_RoundedStartPlusOffset ==
    (Fires /\ sched.e.delivery_hour = NilDeliveryHour) =>
        LET r == RoundUpToMinute(sched.start, sched.tz)
            at == sched.ret.at
        IN  /\ at.ns = 0
            /\ sched.e.unit = OffsetMinute => at.s = r.s + 60 * sched.e.offset
            /\ sched.e.unit = OffsetHour => at.s = r.s + 3600 * sched.e.offset
            /\ sched.e.unit \in {OffsetDay, OffsetWeek} =>
                  \/ abs(at, sched.tz) = abs(r, sched.tz) + 86400 * OffsetDays(sched.e)
                  \/ at.s = r.s + 86400 * OffsetDays(sched.e)

\* C9 as amended: a minute or hour offset is added as a duration, a day or week
\* offset as calendar days: the result has the rounded start's wall clock time on
\* the date that many (or seven times that many) days later. When a transition of
\* the timezone skips that wall clock time on that date, the result is away from it
\* by the width of the transition.
C9_RoundedStartPlusOffsetUnlessSkipped ==
    (Fires /\ sched.e.delivery_hour = NilDeliveryHour) =>
        LET r == RoundUpToMinute(sched.start, sched.tz)
            at == sched.ret.at
            wall == abs(r, sched.tz) + 86400 * OffsetDays(sched.e)
        IN  /\ at.ns = 0
            /\ sched.e.unit = OffsetMinute => at.s = r.s + 60 * sched.e.offset
            /\ sched.e.unit = OffsetHour => at.s = r.s + 3600 * sched.e.offset
            /\ sched.e.unit \in {OffsetDay, OffsetWeek} =>
                  IF WallExists(wall, sched.tz)
                     THEN abs(at, sched.tz) = wall
                     ELSE at.s \in Displaced(wall, sched.tz) /\ abs(at, sched.tz) # wall

\* C9's case: start 10:00:30, unit hour, offset 1 gives 11:01:00
C9_Witness ==
    /\ Fires
    /\ sched.e = [unit |-> OffsetHour, offset |-> 1, delivery_hour |-> NilDeliveryHour]
    /\ sched.start = At(StartDay, 10, 0, 30, 0)
    /\ sched.ret.at = At(StartDay, 11, 1, 0, 0)

\* C10 as stated: with delivery hour h set, a returned timestamp has hour h and
\* minute, second and sub-second 0 in the timezone, on the calendar date of the
\* instant obtained after rounding and applying the offset.
C10_ClampedToDeliveryHour ==
    (Fires /\ sched.e.delivery_hour # NilDeliveryHour) =>
        /\ HourOf(sched.ret.at, sched.tz) = sched.e.delivery_hour
        /\ MinuteOf(sched.ret.at, sched.tz) = 0
        /\ SecondOf(sched.ret.at, sched.tz) = 0
        /\ sched.ret.at.ns = 0
        /\ DayOf(sched.ret.at, sched.tz) = DayOf(sched.ret.offsetted, sched.tz)

\* C10 as amended: as stated when the wall clock time h:00 exists on that date in
\* the timezone. When a transition of the timezone skips h:00 on that date, the
\* result is away from h:00 of that date by the width of the transition, and its
\* hour is not h.
C10_ClampedToDeliveryHourUnlessSkipped ==
    (Fires /\ sched.e.delivery_hour # NilDeliveryHour) =>
        LET wall == DayOf(sched.ret.offsetted, sched.tz) * 86400
                        + sched.e.delivery_hour * 3600
        IN  IF WallExists(wall, sched.tz)
               THEN C10_ClampedToDeliveryHour
               ELSE /\ sched.ret.at.s \in Displaced(wall, sched.tz)
                    /\ sched.ret.at.ns = 0
                    /\ HourOf(sched.ret.at, sched.tz) # sched.e.delivery_hour

\* C10's case: start 10:00:30, unit day, offset 2, delivery hour 9 gives 09:00:00 two
\* days later, earlier in the day than the instant before the clamp
C10_Witness ==
    /\ Fires
    /\ sched.e = [unit |-> OffsetDay, offset |-> 2, delivery_hour |-> 9]
    /\ sched.start = At(StartDay, 10, 0, 30, 0)
    /\ sched.ret.at = At(StartDay + 2, 9, 0, 0, 0)
    /\ Earlier(sched.ret.at, sched.ret.offsetted)

(***************************************************************************)
(* Claims about the campaign scheduler for a contact                       *)
(***************************************************************************)

\* ScheduleForContact has returned
ContactDone == sched.state = "doneContact"

\* ScheduleForContact has returned "no fire" (a nil time) and no error
NoFireNoError == ~sched.ret.err /\ ~sched.ret.fire

\* the unit of the event scheduled is none of minute, hour, day and week
UnknownUnit == sched.e.unit \notin {OffsetMinute, OffsetHour, OffsetDay, OffsetWeek}

\* C11: ScheduleForContact returns "no fire" and no error when the contact is not in
\* the group of the event's campaign, whatever its field values, and, for an event
\* relative to a named field, when the contact has no value for the field or the
\* value is not a datetime; for an event relative to created_on the start is the
\* contact's creation time and the contact's fields are not read.
C11_NoFireForUnqualifiedContact ==
    ContactDone =>
        LET e == sched.e
            contact == sched.contact
            key == e.relative_to_key
        IN  /\ e.campaign.group_uuid \notin contact.groups =>
                  NoFireNoError /\ ~sched.ret.called
            /\ (key # CreatedOnKey /\ key \notin DOMAIN contact.fields) =>
                  NoFireNoError /\ ~sched.ret.called
            /\ (key # CreatedOnKey /\ key \in DOMAIN contact.fields
                    /\ contact.fields[key].type # "datetime") =>
                  NoFireNoError /\ ~sched.ret.called
            /\ (key = CreatedOnKey /\ e.campaign.group_uuid \in contact.groups) =>
                  /\ sched.ret.called
                  /\ sched.ret.start = contact.created_on
                  /\ ~sched.ret.looked

\* a contact outside the group whose field holds a datetime that would fire
C11_Witness ==
    /\ ContactDone
    /\ sched.e.campaign.group_uuid \notin sched.contact.groups
    /\ sched.e.relative_to_key \in DOMAIN sched.contact.fields
    /\ sched.contact.fields[sched.e.relative_to_key].type = "datetime"
    /\ ~UnknownUnit
    /\ sched.now = At(0, 0, 0, 0, 0)
    /\ NoFireNoError

\* C12 as stated: an offset unit other than minute, hour, day and week makes
\* ScheduleForTime, and ScheduleForContact, return an error and no timestamp, for
\* every start, now and delivery hour, and the computation touches nothing else.
C12_UnknownUnitIsError ==
    (sched.state \in {"done", "doneContact"} /\ UnknownUnit) =>
        /\ sched.ret.err
        /\ ~sched.ret.fire
        /\ IdleFires /\ IdleBroadcasts

\* C12 as amended: an offset unit other than minute, hour, day and week makes
\* ScheduleForTime return an error and no timestamp for every start, now and delivery
\* hour; ScheduleForContact returns that error, and no timestamp, whenever it gets to
\* call ScheduleForTime (the contact is in the group and has a start), and "no fire"
\* without an error otherwise; the computation touches nothing else.
C12_UnknownUnitIsErrorWhenScheduled ==
    (sched.state \in {"done", "doneContact"} /\ UnknownUnit) =>
        /\ ~sched.ret.fire
        /\ sched.state = "done" => sched.ret.err
        /\ sched.state = "doneContact" => (sched.ret.err <=> sched.ret.called)
        /\ sched.state = "doneContact" =>
              (sched.ret.called <=>
                  /\ sched.e.campaign.group_uuid \in sched.contact.groups
                  /\ \/ sched.e.relative_to_key = CreatedOnKey
                     \/ /\ sched.e.relative_to_key \in DOMAIN sched.contact.fields
                        /\ sched.contact.fields[sched.e.relative_to_key].type = "datetime")
        /\ IdleFires /\ IdleBroadcasts

\* an event of unknown unit with a delivery hour, for a contact in the group with a
\* datetime in the field: the error of ScheduleForTime is returned
C12_Witness ==
    /\ ContactDone
    /\ UnknownUnit
    /\ sched.e.delivery_hour # NilDeliveryHour
    /\ sched.ret.called
    /\ sched.ret.looked
    /\ sched.ret.err
    /\ ~sched.ret.fire

\* the start ScheduleForContact has for the contact is a time: the event is relative
\* to created_on, or the contact's value for the field is a datetime
DateTyped ==
    \/ sched.e.relative_to_key = CreatedOnKey
    \/ /\ sched.e.relative_to_key \in DOMAIN sched.contact.fields
       /\ sched.contact.fields[sched.e.relative_to_key].type = "datetime"

\* the instant computed from the start ScheduleForContact passed on: rounded up to
\* the minute, offset, clamped to the delivery hour
Computed ==
    applyDeliveryHour(sched.e,
        applyOffset(sched.e, roundToNextMinute(sched.ret.start, sched.tz), sched.tz).scheduled,
        sched.tz)

\* both qualification checks hold for the contact scheduled
Qualifies ==
    QualifiesByGroup(sched.e, sched.contact) /\ QualifiesByField(sched.e, sched.contact)

\* C26 as stated: whenever ScheduleForContact returns a fire time for a contact, both
\* QualifiesByGroup and QualifiesByField hold for it, and whenever both hold and the
\* unit is recognised, ScheduleForContact returns a fire time, or "no fire" only
\* because the computed instant is not after now.
C26_QualifiedIffScheduled ==
    ContactDone =>
        /\ sched.ret.fire => Qualifies
        /\ (Qualifies /\ ~UnknownUnit) =>
              /\ ~sched.ret.err
              /\ \/ sched.ret.fire
                 \/ sched.ret.called /\ ~Before(sched.now, Computed)

\* C26 as amended: whenever ScheduleForContact returns a fire time both checks hold;
\* whenever both hold, the unit is recognised and the start is a time (created_on, or
\* a datetime value), it returns a fire time, or "no fire" only because the computed
\* instant is before now; whenever both hold and the value of the field is not a
\* datetime, it returns "no fire" without computing anything.
C26_QualifiedAndDateTypedIffScheduled ==
    ContactDone =>
        /\ sched.ret.fire => Qualifies
        /\ (Qualifies /\ ~UnknownUnit /\ DateTyped) =>
              /\ ~sched.ret.err
              /\ sched.ret.called
              /\ sched.ret.fire <=> ~Before(Computed, sched.now)
        /\ (Qualifies /\ ~DateTyped) =>
              NoFireNoError /\ ~sched.ret.called

\* a contact in the group whose field holds a text, for an event of a recognised
\* unit and a now before every start: both checks hold and nothing is scheduled
C26_Witness ==
    /\ ContactDone
    /\ Qualifies
    /\ ~UnknownUnit
    /\ sched.e.relative_to_key \in DOMAIN sched.contact.fields
    /\ sched.contact.fields[sched.e.relative_to_key].type = "text"
    /\ sched.now = At(0, 0, 0, 0, 0)
    /\ NoFireNoError

(***************************************************************************)
(* Claims about the language change hook                                   *)
(***************************************************************************)

\* the rows of an invocation of the hook for the contact of session s
RowsOf(call, s) == {i \in DOMAIN call.updates : call.updates[i].id = SessionContactID(s)}

\* C13: when the language hook is applied, every session of the map, with k >= 1
\* accumulated events, contributes exactly one row to the bulk update, with the
\* contact of the session and the language of its last event in emission order; there
\* are as many rows as sessions.
C13_LastEventWins ==
    \A n \in DOMAIN applied :
        LET call == applied[n]
        IN  /\ Len(call.updates) = Cardinality(DOMAIN call.sessions)
            /\ \A s \in DOMAIN call.sessions :
                  /\ Len(call.sessions[s]) >= 1
                  /\ Cardinality(RowsOf(call, s)) = 1
                  /\ \A i \in RowsOf(call, s) :
                        call.updates[i].language
                            = call.sessions[s][Len(call.sessions[s])].language

\* a session with events A, B, C and another with one event: two rows, C for the first
C13_Witness ==
    /\ Len(applied) = 1
    /\ DOMAIN applied[1].sessions = Sessions
    /\ applied[1].sessions["s1"]
          = <<[type |-> "contact_language_changed", language |-> "A"],
              [type |-> "contact_language_changed", language |-> "B"],
              [type |-> "contact_language_changed", language |-> "C"]>>
    /\ Len(applied[1].updates) = 2
    /\ \E i \in 1..2 : applied[1].updates[i] = [id |-> 1, language |-> "C"]
    /\ contactLanguage[1] = "C"

\* a step that handles an event
HandleStep == preCommits' # preCommits

\* a step that commits
CommitStep == committed = "no" /\ committed' # "no"

\* C14: handling a language-changed event writes nothing to the database and appends
\* the event to the list of the handling session, and of no other, under the one
\* language hook; a commit invokes the hook exactly once, with the map of every
\* session that has events to all its events, when some session has an event, and
\* does not invoke it when none has.
C14_AccumulateThenApplyOnce ==
    [][/\ HandleStep =>
             /\ contactLanguage' = contactLanguage
             /\ applied' = applied
             /\ \E s \in Sessions, e \in ContactLanguageChangedEvents :
                   /\ preCommits'[s][commitLanguageChangesHook]
                         = Append(preCommits[s][commitLanguageChangesHook], e)
                   /\ \A t \in Sessions \ {s} : preCommits'[t] = preCommits[t]
       /\ CommitStep =>
             LET with == {s \in Sessions : preCommits[s][commitLanguageChangesHook] # <<>>}
             IN  /\ with = {} => applied' = applied
                 /\ with # {} =>
                       /\ Len(applied') = Len(applied) + 1
                       /\ applied'[Len(applied')].hook = commitLanguageChangesHook
                       /\ applied'[Len(applied')].sessions
                             = [s \in with |-> preCommits[s][commitLanguageChangesHook]]
       /\ Len(applied') <= 1]_vars

\* one session has two events, the other none, and the commit invoked the hook once
\* with the first session only
C14_Witness ==
    /\ committed = "done"
    /\ Len(preCommits["s1"][commitLanguageChangesHook]) = 2
    /\ preCommits["s2"][commitLanguageChangesHook] = <<>>
    /\ Len(applied) = 1
    /\ DOMAIN applied[1].sessions = {"s1"}
    /\ applied[1].sessions["s1"] = preCommits["s1"][commitLanguageChangesHook]

\* the contacts table every order of the session map, and of the rows of the update,
\* leads to from the state before the commit
CommitOutcomes ==
    LET sessions == SessionsOf(preCommits, commitLanguageChangesHook)
    IN  {updateContactLanguageSQL(contactLanguage, rows) :
            rows \in UNION {JoinOrders(languageUpdates(sessions, keys)) :
                               keys \in KeyOrders(sessions)}}

\* C24: the outcome of applying the language hook does not depend on the order in
\* which the sessions are iterated: for every map of sessions to event lists, also one
\* in which two sessions belong to the same contact, every order yields the same
\* language for every contact.
C24_SessionOrderIndependent ==
    [][(CommitStep /\ committed' = "done") => CommitOutcomes = {contactLanguage'}]_vars

(***************************************************************************)
(* Claims about the broadcast fan-out                                      *)
(***************************************************************************)

\* the run of CreateBroadcastBatches has returned
FanoutDone == fanout.state = "done"

\* the run got past recipient resolution (line 73), so that it returns nil
Resolved == FanoutDone /\ fanout.resolved

\* the batches the run handed to queue.AddTask, in call order
Created == [i \in DOMAIN fanout.calls |-> fanout.calls[i].task]

\* the batches the queues hold, the ones of the handler queue first
Queued ==
    LET tasks == handlerQueue \o batchQueue
    IN  [i \in DOMAIN tasks |-> tasks[i].task]

\* the contact lists of a list of batches, one after the other
RECURSIVE AllContacts(_)
AllContacts(batches) ==
    IF batches = <<>> THEN <<>>
    ELSE Head(batches).contact_ids \o AllContacts(Tail(batches))

\* how often contact c is listed in a contact list
Listed(c, contacts) == Cardinality({i \in DOMAIN contacts : contacts[i] = c})

\* the contacts that own a URN of the broadcast
Owners(urnMap) == {urnMap[u] : u \in DOMAIN urnMap}

\* the recipient contacts of the run: those the code collected on lines 49-57
Recipients == fanout.contactIDs

\* the contacts both among the recipients and owner of a URN
Repeated == Recipients \cap Owners(fanout.urnMap)

\* every queue.AddTask call of the run succeeded
AllEnqueued == \A i \in DOMAIN fanout.calls : ~fanout.calls[i].err

\* the number of batches for n contacts
BatchCount(n) ==
    IF n = 0 THEN 1 ELSE (n + startBatchSize - 1) \div startBatchSize

\* batches are n contacts cut into full batches with is-last false and a last batch
\* with is-last true and the rest
Shaped(batches, n) ==
    LET k == BatchCount(n)
    IN  /\ Len(batches) = k
        /\ \A i \in 1..(k - 1) :
              Len(batches[i].contact_ids) = startBatchSize /\ ~batches[i].is_last
        /\ batches[k].is_last
        /\ Len(batches[k].contact_ids) = n - (k - 1) * startBatchSize

\* the queues hold the batches whose queue.AddTask succeeded, in call order, and
\* nothing else
QueuedAreCreatedLessFailed ==
    LET ok == SelectSeq(fanout.calls, LAMBDA c : ~c.err)
    IN  Queued = [i \in DOMAIN ok |-> ok[i].task]

\* C2 as stated, for the runs that return nil and whose every queue.AddTask
\* succeeded: every contact in the union of the broadcast's explicit contact ids and
\* the members of its groups is in the contact list of exactly one enqueued batch,
\* exactly once.
C2_EachRecipientInOneEnqueuedBatch ==
    (FanoutDone /\ fanout.ret = Nil /\ AllEnqueued) =>
        LET union == Range(fanout.task.task.contact_ids) \cup fanout.env.members
            all == AllContacts(Queued)
        IN  /\ union \subseteq Range(all)
            /\ Len(SelectSeq(all, LAMBDA c : c \in union)) = Cardinality(union)

\* C3: a contact that is both in the contact/group set and the owner of one of the
\* broadcast's URNs is in the contact list of no batch with is-last false; it is
\* exactly once in the contact list of the one batch with is-last true, and the URN
\* map of that batch has a URN of this contact for it.
C3_RepeatedOnlyInLastBatch ==
    Resolved =>
        \A c \in Repeated :
            /\ \A i \in DOMAIN Created :
                  ~Created[i].is_last => c \notin Range(Created[i].contact_ids)
            /\ \E i \in DOMAIN Created :
                  /\ Created[i].is_last
                  /\ \A j \in DOMAIN Created : Created[j].is_last => j = i
                  /\ Listed(c, Created[i].contact_ids) = 1
                  /\ c \in DOMAIN Created[i].urns
                  /\ Created[i].urns[c] \in DOMAIN fanout.urnMap
                  /\ fanout.urnMap[Created[i].urns[c]] = c

\* a run with a repeated contact and batches before the last one
C3_Witness ==
    /\ Resolved
    /\ Repeated # {}
    /\ Len(Created) = 3
    /\ AllEnqueued

OneLastBatch(batches) ==
    /\ batches # <<>>
    /\ \A i \in DOMAIN batches :
          /\ batches[i].is_last <=> i = Len(batches)
          /\ batches[i].is_last => DOMAIN batches[i].urns = Owners(fanout.urnMap)
          /\ ~batches[i].is_last => DOMAIN batches[i].urns = {}

C6_SmallBroadcastToHandlerQueue ==
    (Resolved /\ Cardinality(Recipients \cup Owners(fanout.urnMap)) <= 2) =>
        /\ batchQueue = <<>>
        /\ \A i \in DOMAIN fanout.calls : fanout.calls[i].queue = HandlerQueue

\* a broadcast with exactly two resolved recipients, both from ids or groups, whose
\* batch is in the handler queue
C6_Witness ==
    /\ Resolved
    /\ Cardinality(Recipients) = 2
    /\ Owners(fanout.urnMap) \subseteq Recipients
    /\ Len(handlerQueue) = 1
    /\ handlerQueue[1].type = SendBroadcastBatchType

\* C18 as stated: no failure in fan-out is silently swallowed. When a step of recipient
\* resolution fails (expanding the groups, loading the org assets, loading the session
\* assets, resolving the URNs), the failure is returned as an error or logged, and no
\* batch is enqueued from an incomplete recipient set.
C18_ResolutionFailureReported ==
    (FanoutDone /\ fanout.env.failure \in {"groups", "org", "session", "urns"}) =>
        /\ fanout.ret # Nil \/ fanout.logged # <<>>
        /\ Queued = <<>>

\* C19 as stated: every batch enqueued, the is-last batch with its repeated contacts
\* included, has a contact list of at most 100 entries.
C19_BatchesAtMostBatchSize ==
    FanoutDone =>
        \A i \in DOMAIN Queued : Len(Queued[i].contact_ids) <= startBatchSize

\* C19 as amended: every batch with is-last false has exactly 100 contacts; the
\* is-last batch has at most 100 contacts that are not repeated, and after them one
\* entry for every repeated contact, so that it has more than 100 entries when fewer
\* than that many are left for it.
C19_LastBatchHoldsRepeatedToo ==
    Resolved =>
        /\ \A i \in DOMAIN Created :
              IF Created[i].is_last
              THEN /\ Len(Created[i].contact_ids) <= startBatchSize + Cardinality(Repeated)
                   /\ Cardinality(Range(Created[i].contact_ids) \ Repeated) <= startBatchSize
                   /\ Repeated \subseteq Range(Created[i].contact_ids)
              ELSE Len(Created[i].contact_ids) = startBatchSize
        /\ \A i \in DOMAIN Queued : \E j \in DOMAIN Created : Queued[i] = Created[j]

\* 101 recipients of which one is repeated: one enqueued batch, is-last, of 101 contacts
C19_Witness ==
    /\ Resolved
    /\ Cardinality(Recipients) = startBatchSize + 1
    /\ Cardinality(Repeated) = 1
    /\ Len(Queued) = 1
    /\ Queued[1].is_last
    /\ Len(Queued[1].contact_ids) = startBatchSize + 1

\* the queue.AddTask calls of the run that failed
FailedCalls == {i \in DOMAIN fanout.calls : fanout.calls[i].err}

\* C22: the queue is chosen once per fan-out and is the converse of the small
\* broadcast rule: all batches of one run are enqueued on the same queue with task type
\* send_broadcast_batch and default priority, and when the resolved recipients (the
\* contacts from ids and groups together with the owners of the URNs) are more than 2,
\* that queue is the batch queue.
C22_LargeBroadcastToBatchQueue ==
    Resolved =>
        /\ \A i, j \in DOMAIN fanout.calls : fanout.calls[i].queue = fanout.calls[j].queue
        /\ \A i \in DOMAIN fanout.calls :
              /\ fanout.calls[i].type = SendBroadcastBatchType
              /\ fanout.calls[i].priority = DefaultPriority
        /\ Cardinality(Recipients \cup Owners(fanout.urnMap)) > 2 =>
              /\ handlerQueue = <<>>
              /\ \A i \in DOMAIN fanout.calls : fanout.calls[i].queue = BatchQueue

\* what holds of a run in which a queue.AddTask call failed, but for the way the
\* failure is surfaced: the batches of the other calls are all in the queues, the
\* is-last batch was handed to the last call, and no contact of a batch that failed is
\* in a later batch
FanoutGoesOn ==
    /\ Len(Queued) = Len(fanout.calls) - Cardinality(FailedCalls)
    /\ \A j \in DOMAIN fanout.calls \ FailedCalls :
          \E k \in DOMAIN Queued : Queued[k] = fanout.calls[j].task
    /\ fanout.calls[Len(fanout.calls)].task.is_last
    /\ \A i \in FailedCalls : \A j \in DOMAIN fanout.calls :
          j > i => Range(fanout.calls[i].task.contact_ids)
                       \cap Range(fanout.calls[j].task.contact_ids) = {}

\* C23 as stated: a failure to enqueue one batch does not stop the fan-out: every
\* later batch, the is-last batch included, is still enqueued, the contacts of the
\* failed batch are not carried over into a later batch, and the failure is surfaced
\* to the caller of CreateBroadcastBatches.
C23_EnqueueFailureReturned ==
    (Resolved /\ FailedCalls # {}) =>
        /\ FanoutGoesOn
        /\ fanout.ret # Nil

\* C23 as amended: a failure to enqueue one batch does not stop the fan-out: every
\* later batch, the is-last batch included, is still enqueued and the contacts of the
\* failed batch are not carried over into a later batch; the failure is logged, once
\* for every call that failed, and CreateBroadcastBatches returns nil to its caller.
C23_EnqueueFailureLogged ==
    (Resolved /\ FailedCalls # {}) =>
        /\ FanoutGoesOn
        /\ Len(fanout.logged) = Cardinality(FailedCalls)
        /\ fanout.ret = Nil

\* the first of three batches was not enqueued: the two others are in the batch queue,
\* the is-last one last
C23_Witness ==
    /\ Resolved
    /\ Len(fanout.calls) = 3
    /\ FailedCalls = {1}
    /\ Len(batchQueue) = 2
    /\ ~batchQueue[1].task.is_last
    /\ batchQueue[2].task.is_last
    /\ fanout.logged # <<>>

(***************************************************************************)
(* Claims about the broadcast batch worker                                 *)
(***************************************************************************)

\* the step takes a task from a queue and SendBroadcastBatch is called for its batch
SendStep ==
    /\ Len(handlerQueue') + Len(batchQueue') < Len(handlerQueue) + Len(batchQueue)
    /\ sendCall'.called

\* the batch a step sends
SentBatch == sendCall'.task.task

\* a step of SendBroadcastBatch failed
StepFailed == sendCall'.failure \in {"org", "session", "messages", "courier"}

FanoutRedelivered ==
    /\ fanout.state = "done" /\ fanout'.state = "redone"
    /\ fanout.ret = Nil /\ fanout'.ret = Nil

\* the step hands a send_broadcast_batch task to its handler again, and both runs
\* returned nil
BatchRedelivered ==
    /\ sendCall.state = "done" /\ sendCall'.state = "redone"
    /\ sendCall.ret = Nil /\ sendCall'.ret = Nil

\* C16 as stated: running the send_broadcast or send_broadcast_batch handler to
\* completion a second time on the same task leaves what one run leaves: no batch is
\* enqueued again and no message is created and handed to courier again.
C16_RedeliveryChangesNothing ==
    [][/\ FanoutRedelivered => handlerQueue' = handlerQueue /\ batchQueue' = batchQueue
       /\ BatchRedelivered => courier' = courier]_vars

\* the step gives a handler a task of another type than its own, or one whose body
\* does not decode
FanoutRejected ==
    /\ fanout'.state = "done" /\ fanout.state = "call"
    /\ fanout.task.type # SendBroadcastType \/ fanout'.env.failure = "decode"

BatchRejected ==
    /\ sendCall' # sendCall
    /\ sendCall'.task.type # SendBroadcastBatchType \/ sendCall'.failure = "decode"

\* C17: a task of another type than the handler's, or with a body that does not
\* decode, makes handleSendBroadcast and handleSendBroadcastBatch return an error;
\* no batch is enqueued, no message is created, no broadcast is marked sent, and the
\* other tasks stay in their queues.
C17_RejectedTaskHasNoEffect ==
    [][/\ FanoutRejected =>
             /\ fanout'.ret \in {"unknown event type passed to send worker",
                                 "error unmarshalling broadcast"}
             /\ fanout'.calls = <<>>
             /\ UNCHANGED <<handlerQueue, batchQueue, sent, courier>>
       /\ BatchRejected =>
             /\ sendCall'.ret \in {"unknown event type passed to send worker",
                                   "error unmarshalling broadcast"}
             /\ ~sendCall'.called
             /\ UNCHANGED <<sent, courier>>
             /\ Len(handlerQueue') <= Len(handlerQueue)
             /\ Len(batchQueue') <= Len(batchQueue)
             /\ \A i \in DOMAIN handlerQueue' :
                   \E j \in DOMAIN handlerQueue : handlerQueue'[i] = handlerQueue[j]
             /\ \A i \in DOMAIN batchQueue' :
                   \E j \in DOMAIN batchQueue : batchQueue'[i] = batchQueue[j]]_vars

\* handleSendBroadcast was given a send_broadcast_batch task and
\* handleSendBroadcastBatch a send_broadcast task: both returned the error, and nothing
\* was enqueued, handed to courier or marked sent
C17_Witness ==
    /\ fanout.state = "done"
    /\ fanout.task.type = SendBroadcastBatchType
    /\ fanout.ret = "unknown event type passed to send worker"
    /\ sendCall.state = "done"
    /\ sendCall.task.type = SendBroadcastType
    /\ sendCall.ret = "unknown event type passed to send worker"
    /\ handlerQueue = <<>> /\ batchQueue = <<>>
    /\ courier = <<>>
    /\ sent = {}

(***************************************************************************)
(* Claims about the flow lookup                                            *)
(***************************************************************************)

\* the flows of the table in the org the lookup is for
FlowsOfOrg == {row \in flowLookup.table : row.org_id = flowLookup.org_id}

LoadReturnsOnlyUnfired ==
    lastCall.op = "LoadEventFires" =>
        \A f \in lastCall.ret : f \in fires /\ f.fired = NULL

\* a row the store holds as fired keeps its fired time and result in this step
FiredRowsKept ==
    \A f \in fires : f.fired # NULL =>
        \A g \in fires' : g.fire_id = f.fire_id =>
            g.fired = f.fired /\ g.fired_result = f.fired_result

\* C25: a fire row is resolved at most once: LoadEventFires returns only rows
\* whose fired time is null, and once MarkEventsFired has set a row's fired time
\* and result no later MarkEventsFired overwrites them.
C25_FireResolvedAtMostOnce ==
    [][LoadReturnsOnlyUnfired' /\ FiredRowsKept]_vars

(***************************************************************************)
(* Claims about concurrent workers                                         *)
(***************************************************************************)

\* the broadcasts marked sent in this step
NewlySent == sent' \ sent

\* the batches of broadcast b that are in a queue or held by a worker
Pending(queues, held, b) ==
    {i \in DOMAIN queues : queues[i].task.broadcast_id = b}
        \cup {w \in PoolWorkers : held[w] # Free /\ held[w].task.task.broadcast_id = b}

\* C21 as stated: a broadcast is marked sent only after all of its batches have been
\* processed: in every interleaving of workers pulling the batches of one fan-out, at
\* the moment the broadcast is marked sent no batch of it is unprocessed or in progress.
C21_SentAfterAllBatches ==
    [][\A b \in NewlySent : Pending(handlerQueue' \o batchQueue', inProgress', b) = {}]_vars

\* C21 as amended: a broadcast is marked sent at the moment a worker finishes its
\* is-last batch, and at no other moment, whatever the state of its other batches.
C21_SentWhenLastBatchDone ==
    [][\A b \in NewlySent :
          \E w \in PoolWorkers :
              /\ inProgress[w] # Free
              /\ inProgress[w].task.type = SendBroadcastBatchType
              /\ inProgress[w].task.task.broadcast_id = b
              /\ inProgress[w].task.task.is_last
              /\ inProgress'[w] = Free]_vars

\* the broadcast is marked sent while a worker holds a batch of it and another batch
\* is still in the batch queue
C21_Witness ==
    /\ 1 \in sent
    /\ \E w \in PoolWorkers :
          /\ inProgress[w] # Free
          /\ inProgress[w].task.task.broadcast_id = 1
          /\ ~inProgress[w].task.task.is_last
    /\ \E i \in DOMAIN batchQueue :
          batchQueue[i].task.broadcast_id = 1 /\ ~batchQueue[i].task.is_last

(***************************************************************************)
(* Claims about the web server                                             *)
(***************************************************************************)

Served == request.state = "done"

\* the request's Authorization header is "Token " followed by the configured token
Authenticated ==
    /\ "Authorization" \in DOMAIN request.header
    /\ request.header["Authorization"] = "Token " \o request.auth_token

\* the request was refused: an unauthorized error, and the wrapped handler not called
Refused ==
    /\ ~request.ret.called
    /\ request.ret.status = StatusUnauthorized
    /\ request.ret.err # Nil
    /\ request.response.status = StatusUnauthorized

\* C27 as stated: a handler wrapped by RequireAuthToken is called if and only if the
\* request's authorization header equals "Token " followed by the configured auth
\* token; every other request gets an unauthorized (401) error and the wrapped handler
\* is not called, for every configuration value of the auth token.
C27_CalledIffAuthenticated ==
    Served =>
        /\ request.ret.called <=> Authenticated
        /\ ~Authenticated => Refused

\* C27 as amended: when the configured auth token is not empty, the wrapped handler is
\* called if and only if the request's authorization header equals "Token " followed
\* by the token, and every other request gets an unauthorized (401) error without the
\* handler being called; when the configured token is empty, the handler is called
\* for every request, with any authorization header or none. A request that is let
\* through gets what the handler returns.
C27_CalledIffAuthenticatedOrNoToken ==
    Served =>
        /\ request.auth_token # "" =>
              /\ request.ret.called <=> Authenticated
              /\ ~Authenticated => Refused
        /\ request.auth_token = "" => request.ret.called
        /\ request.ret.called =>
              /\ request.ret.value = request.handler.value
              /\ request.ret.status = request.handler.status
              /\ request.ret.err = request.handler.err

\* a server with no token configured served a request without authorization header:
\* the handler was called
C27_Witness ==
    /\ Served
    /\ request.auth_token = ""
    /\ request.header = <<>>
    /\ request.ret.called
    /\ request.response.status = StatusOK

\* Server.Start has returned
StartReturned == server.state = "new" /\ server.main # "new"

\* the serving goroutine has registered with the wait group
Registered == server.serving \notin {"none", "spawned"}

\* C28: Server.Start registers with the shared wait group before it can be waited on:
\* in every interleaving, once Start has returned the count of the wait group includes
\* the serving goroutine, so that a Wait issued after Start returns does not complete
\* until that goroutine has finished.
C28_StartRegistersBeforeWait ==
    StartReturned =>
        /\ Registered
        /\ server.main = "waited" => server.serving = "finished"

====
